---- MODULE Spec2Model ----
(***************************************************************************)
(* Model of the report editing page (src/pages/field/report/[id].tsx):     *)
(* the issue draft, its photo uploads, and the save / delete flows that    *)
(* write the draft to the store.                                           *)
(*                                                                         *)
(* The component's hook values live in `state`; `rendered` holds the       *)
(* values captured by the closures of the last render.  An update made in  *)
(* a user event is rendered at the end of that event; an update made in    *)
(* the continuation of an awaited call is rendered by a later Render step. *)
(***************************************************************************)
EXTENDS Integers, Sequences, FiniteSets, TLC

\* ---------------------------------------------------------------- bounds
\* Spec: the page from its mount, every handler
MaxUploads == 1      \* photo uploads started during one run
MaxEdits == 1        \* field edits of the draft during one run
MaxOps == 1          \* save-issue / delete-issue / delete-report flows started
MaxFaults == 1       \* store calls that end with an error
\* SpecUpload: the draft and its uploads
DraftUploads == 2
\* SpecSave: handleSaveIssue and its writes
SaveOps == 2
SaveFaults == 1
\* SpecGate: handleSaveIssue while photos are uploaded
GateUploads == 1
GateOps == 1
\* SpecDelete: handleDeleteIssue and handleDeleteReport
DeleteOps == 2
DeleteFaults == 1
\* SpecMap: autoFetchMap beside uploads and saves
MapUploads == 1
MapOps == 1
\* SpecAuth: calls of login and of logout
MaxLogins == 1
MaxLogouts == 1
\* SpecMosque: issue saves and deletes beside edits of the mosque fields
MosqueOps == 1
\* SpecValidate: the validation inputs
MaxEntries == 4      \* entries of case2Data.items
MaxPhotos == 4       \* entries of case1Data.photos

\* ------------------------------------------------------------ value sets
Max(a, b) == IF a >= b THEN a ELSE b

\* A photo slot holds a string; the strings are told apart by their origin.
NoPhoto == <<"", 0>>                   \* the empty string
Undefined == <<"undefined", 0>>        \* a hole of a sparse array
blobUrl(n) == <<"blob", n>>            \* URL.createObjectURL of upload n
publicUrl(n) == <<"public", n>>        \* getPublicUrl of upload n
storedUrl(n) == <<"stored", n>>        \* a photo_url that was in the store at page load

Truthy(p) == p # NoPhoto /\ p # Undefined

NullPrice == -999                      \* unit_price column holding null

\* The catalog loaded by loadItems: one main item with one sub item.
MainItemIds == {"m1"}
SubItemIds == {"s1"}
CatalogPrice == 50

\* getSubItemPrice: price of the sub item in the catalog, 0 when not found
getSubItemPrice(subItemId) ==
    IF subItemId \in SubItemIds THEN CatalogPrice ELSE 0

\* ------------------------------------------------------------- the draft
EmptyItem == [sub_item_id |-> "", quantity |-> 1, unit_price |-> 0, photo |-> NoPhoto]

EmptyCase1 == [sub_item_id |-> "", quantity |-> 1, unit_price |-> 0, photos |-> <<>>]

EmptyCase2 == [items |-> <<EmptyItem, EmptyItem, EmptyItem>>]

\* the template of useState / resetIssueForm
EmptyForm ==
    [caseType |-> "case1", main_item_id |-> "", notes |-> "",
     case1Data |-> EmptyCase1, case2Data |-> EmptyCase2]

\* arr[index] of a JavaScript array (index counted from 0)
At(arr, index) == IF index + 1 <= Len(arr) THEN arr[index + 1] ELSE Undefined

\* copy of arr with arr[index] = v; the array grows with holes when needed
SetAt(arr, index, v) ==
    [k \in 1..Max(Len(arr), index + 1) |->
        IF k = index + 1 THEN v
        ELSE IF k <= Len(arr) THEN arr[k] ELSE Undefined]

\* arr.filter((p) => p).length
RECURSIVE CountTruthy(_)
CountTruthy(arr) ==
    IF arr = <<>> THEN 0
    ELSE (IF Truthy(Head(arr)) THEN 1 ELSE 0) + CountTruthy(Tail(arr))

\* --------------------------------------------- updaters of the photo slots
\* handleCase1PhotoUpload: the slot shows the preview
Case1Preview(prev, index, previewUrl) ==
    [prev EXCEPT !.case1Data.photos = SetAt(@, index, previewUrl)]

Case1ResolvedUnguarded(prev, index, previewUrl, photoUrl) ==
    [prev EXCEPT !.case1Data.photos = SetAt(@, index, photoUrl)]

\* handleCase1PhotoUpload: the upload resolved
Case1Resolved(prev, index, previewUrl, photoUrl) ==
    IF At(prev.case1Data.photos, index) # previewUrl THEN prev
    ELSE [prev EXCEPT !.case1Data.photos = SetAt(@, index, photoUrl)]

Case1RejectedUnguarded(prev, index, previewUrl) ==
    [prev EXCEPT !.case1Data.photos = SetAt(@, index, NoPhoto)]

\* handleCase1PhotoUpload: the upload threw
Case1Rejected(prev, index, previewUrl) ==
    IF At(prev.case1Data.photos, index) # previewUrl THEN prev
    ELSE [prev EXCEPT !.case1Data.photos = SetAt(@, index, NoPhoto)]

\* handleCase2PhotoUpload: the slot shows the preview
Case2Preview(prev, itemIndex, previewUrl) ==
    [prev EXCEPT !.case2Data.items[itemIndex + 1].photo = previewUrl]

Case2ResolvedFirstWins(prev, itemIndex, previewUrl, photoUrl) ==
    IF prev.case2Data.items[itemIndex + 1].photo[1] # "blob" THEN prev
    ELSE [prev EXCEPT !.case2Data.items[itemIndex + 1].photo = photoUrl]

\* handleCase2PhotoUpload: the upload resolved
Case2Resolved(prev, itemIndex, previewUrl, photoUrl) ==
    IF prev.case2Data.items[itemIndex + 1].photo # previewUrl THEN prev
    ELSE [prev EXCEPT !.case2Data.items[itemIndex + 1].photo = photoUrl]

Case2RejectedUnguarded(prev, itemIndex, previewUrl) ==
    [prev EXCEPT !.case2Data.items[itemIndex + 1].photo = NoPhoto]

\* handleCase2PhotoUpload: the upload threw
Case2Rejected(prev, itemIndex, previewUrl) ==
    IF prev.case2Data.items[itemIndex + 1].photo # previewUrl THEN prev
    ELSE [prev EXCEPT !.case2Data.items[itemIndex + 1].photo = NoPhoto]

PendingAfterSettleStuck(count) == count

\* the finally block: setPendingUploads((count) => Math.max(0, count - 1))
PendingAfterSettle(count) == Max(0, count - 1)

\* ------------------------------------------------------------ validation
ValidEntryWithoutPhoto(item) ==
    /\ item.sub_item_id # ""
    /\ item.quantity > 0
    /\ item.unit_price > 0

\* the filter of validateIssue over case2Data.items
ValidEntry(item) ==
    /\ item.sub_item_id # ""
    /\ Truthy(item.photo)
    /\ item.quantity > 0
    /\ item.unit_price > 0

RECURSIVE CountValid(_)
CountValid(items) ==
    IF items = <<>> THEN 0
    ELSE (IF ValidEntry(Head(items)) THEN 1 ELSE 0) + CountValid(Tail(items))

validateIssueAtLeast3(ci) ==
    /\ ci.main_item_id # ""
    /\ IF ci.caseType = "case1"
       THEN /\ ci.case1Data.sub_item_id # ""
            /\ CountTruthy(ci.case1Data.photos) >= 3
            /\ ci.case1Data.quantity > 0
            /\ ci.case1Data.unit_price >= 0
       ELSE CountValid(ci.case2Data.items) >= 3

\* validateIssue: TRUE when the draft is accepted
validateIssue(ci) ==
    /\ ci.main_item_id # ""
    /\ IF ci.caseType = "case1"
       THEN /\ ci.case1Data.sub_item_id # ""
            /\ CountTruthy(ci.case1Data.photos) = 3
            /\ ci.case1Data.quantity > 0
            /\ ci.case1Data.unit_price > 0
       ELSE CountValid(ci.case2Data.items) = 3

\* -------------------------------------------------------------- the store
\* Rows of report_issues, issue_items and issue_photos, in insertion order.
IssueRow(id, type) ==
    [id |-> id, issue_type |-> type, main_item_id |-> "m1", notes |-> ""]

ItemRow(issueId, sub, qty, price) ==
    [issue_id |-> issueId, sub_item_id |-> sub, quantity |-> qty, unit_price |-> price]

PhotoRow(issueId, url) == [issue_id |-> issueId, photo_url |-> url]

\* The store when the page is opened: issue 1 is a "single" issue that carries
\* rows of an earlier save on top of its own (2 items, 4 photos), issue 2 is a
\* "multiple" issue with its 3 items and 3 photos.
\* the mosque row joined to the report, and the mosques value of no report
StoredMosque == [name |-> "stored"]
NoMosque == [name |-> ""]

InitialStore ==
    [report |-> TRUE,
     mosques |-> StoredMosque,
     issues |-> <<IssueRow(1, "single"), IssueRow(2, "multiple")>>,
     items |-> <<ItemRow(1, "s1", 2, 50), ItemRow(1, "s1", 1, NullPrice),
                 ItemRow(2, "s1", 1, 50), ItemRow(2, "s1", 2, 50), ItemRow(2, "s1", 1, 50)>>,
     photos |-> <<PhotoRow(1, storedUrl(1)), PhotoRow(1, storedUrl(2)),
                  PhotoRow(1, storedUrl(3)), PhotoRow(1, storedUrl(4)),
                  PhotoRow(2, storedUrl(5)), PhotoRow(2, storedUrl(6)),
                  PhotoRow(2, storedUrl(7))>>]

InitialIssueIds == {1, 2}

RowsOf(rows, issueId) ==
    LET Mine(r) == r.issue_id = issueId IN SelectSeq(rows, Mine)

RowsNotOf(rows, ids) ==
    LET Others(r) == r.issue_id \notin ids IN SelectSeq(rows, Others)

IssueIdsIn(st) == {st.issues[k].id : k \in 1..Len(st.issues)}

\* report === null
NullReport == [present |-> FALSE, mosques |-> NoMosque, report_issues |-> <<>>]

\* reportService.getReportById: the report with its issues, each with its
\* items (joined with the sub item for the price) and its photos
getReportById(st) ==
    [present |-> TRUE,
     mosques |-> st.mosques,
     report_issues |->
        [k \in 1..Len(st.issues) |->
            [id |-> st.issues[k].id,
             issue_type |-> st.issues[k].issue_type,
             main_item_id |-> st.issues[k].main_item_id,
             notes |-> st.issues[k].notes,
             issue_items |-> RowsOf(st.items, st.issues[k].id),
             issue_photos |-> RowsOf(st.photos, st.issues[k].id)]]]

\* item?.unit_price ?? item?.sub_items?.unit_price ?? 0
HydratedPrice(items, idx) ==
    IF idx + 1 > Len(items) THEN 0
    ELSE IF items[idx + 1].unit_price # NullPrice THEN items[idx + 1].unit_price
    ELSE getSubItemPrice(items[idx + 1].sub_item_id)

\* items[idx]?.quantity || 1
HydratedQuantity(items, idx) ==
    IF idx + 1 > Len(items) \/ items[idx + 1].quantity = 0 THEN 1
    ELSE items[idx + 1].quantity

\* items[idx]?.sub_item_id || ""
HydratedSubItem(items, idx) ==
    IF idx + 1 > Len(items) THEN "" ELSE items[idx + 1].sub_item_id

HydratedPhotoFirst(photos, idx) ==
    IF Len(photos) = 0 THEN NoPhoto ELSE photos[1].photo_url

\* photos[idx]?.photo_url || ""
HydratedPhoto(photos, idx) ==
    IF idx + 1 > Len(photos) THEN NoPhoto ELSE photos[idx + 1].photo_url

\* openEditIssueDialog: the form built from a persisted issue
HydratedForm(issue) ==
    LET caseType == IF issue.issue_type = "single" THEN "case1" ELSE "case2"
        items == issue.issue_items
        photos == issue.issue_photos
    IN [caseType |-> caseType,
        main_item_id |-> issue.main_item_id,
        notes |-> issue.notes,
        case1Data |->
            IF caseType = "case1"
            THEN [sub_item_id |-> HydratedSubItem(items, 0),
                  quantity |-> HydratedQuantity(items, 0),
                  unit_price |-> HydratedPrice(items, 0),
                  photos |-> <<HydratedPhoto(photos, 0), HydratedPhoto(photos, 1),
                               HydratedPhoto(photos, 2)>>]
            ELSE EmptyCase1,
        case2Data |->
            IF caseType = "case2"
            THEN [items |-> [k \in 1..3 |->
                    [sub_item_id |-> HydratedSubItem(items, k - 1),
                     quantity |-> HydratedQuantity(items, k - 1),
                     unit_price |-> HydratedPrice(items, k - 1),
                     photo |-> HydratedPhoto(photos, k - 1)]]]
            ELSE EmptyCase2]

\* ------------------------------------------------------------- the state
VARIABLES
    state,       \* the hook values of EditReport
    rendered,    \* the hook values the handlers of the last render closed over
    uploads,     \* the photo uploads started so far
    procs,       \* the load / save / delete flows started so far
    store,       \* the rows of the store
    navigated,   \* router.push("/dashboard") was called
    event,       \* what the last step was, for the save handler and validation
    budget,      \* uploads, field edits and flows that may still be started
    probe        \* input and result of the validation runs

vars == <<state, rendered, uploads, procs, store, navigated, event, budget, probe>>

\* the useState initial values
InitialState ==
    [report |-> NullReport,
     isLoading |-> TRUE,
     isDeleting |-> FALSE,
     isIssueDialogOpen |-> FALSE,
     issueDialogMode |-> "create",
     currentIssue |-> EmptyForm,
     editingIssueId |-> 0,
     pendingUploads |-> 0,
     isSavingIssue |-> FALSE]

currentIssue == state.currentIssue
pendingUploads == state.pendingUploads
isIssueDialogOpen == state.isIssueDialogOpen
isSavingIssue == state.isSavingIssue
report == state.report

\* a flow: its position (the call it awaits) and what its closure captured
Proc(kind, pc) ==
    [kind |-> kind, pc |-> pc, mode |-> "", draft |-> EmptyForm, issueId |-> 0,
     issueIds |-> {}, writes |-> <<>>, failed |-> FALSE, alerted |-> FALSE,
     outcome |-> "", data |-> NullReport]

NoProbe == [draft |-> EmptyForm, checked |-> FALSE, result |-> FALSE]

\* the page is mounted and the effect at its mount has called loadReport(id)
Init ==
    /\ state = InitialState
    /\ rendered = InitialState
    /\ uploads = <<>>
    /\ procs = <<Proc("load", "getReportById")>>
    /\ store = InitialStore
    /\ navigated = FALSE
    /\ event = "mount"
    /\ budget = [uploads |-> MaxUploads, edits |-> MaxEdits, flows |-> MaxOps,
                 faults |-> MaxFaults]
    /\ probe = NoProbe

\* ------------------------------------------------------- what is on screen
\* The page shows a spinner instead of its controls while it loads or has no
\* report; after router.push the page is gone.
Visible == ~navigated /\ ~rendered.isLoading /\ rendered.report.present

\* the controls inside the issue dialog
DialogShown == Visible /\ rendered.isIssueDialogOpen

\* the controls of the page; the open dialog is modal and covers them
PageShown == Visible /\ ~rendered.isIssueDialogOpen

\* React renders the component with the current hook values
Render ==
    /\ rendered # state
    /\ rendered' = state
    /\ event' = "other"
    /\ UNCHANGED <<state, uploads, procs, store, navigated, budget, probe>>

\* ------------------------------------------------------------ the dialog
\* bookkeeping: the draft is replaced as a whole, the uploads started on the
\* draft before belong to an earlier draft
Replaced(ups) == [n \in 1..Len(ups) |-> [ups[n] EXCEPT !.live = FALSE]]

\* resetIssueForm
resetIssueForm(s) == [s EXCEPT !.currentIssue = EmptyForm, !.editingIssueId = 0]

AddDialog(s) ==
    [resetIssueForm(s) EXCEPT !.issueDialogMode = "create", !.isIssueDialogOpen = TRUE]

\* openAddIssueDialog
openAddIssueDialog ==
    /\ PageShown
    /\ state' = AddDialog(state)
    /\ rendered' = AddDialog(rendered)
    /\ uploads' = Replaced(uploads)
    /\ event' = "other"
    /\ UNCHANGED <<procs, store, navigated, budget, probe>>

EditDialog(s, issue) ==
    [s EXCEPT !.currentIssue = HydratedForm(issue), !.editingIssueId = issue.id,
              !.issueDialogMode = "edit", !.isIssueDialogOpen = TRUE]

\* openEditIssueDialog(issue), issue being one of the issues on screen
openEditIssueDialog ==
    /\ PageShown
    /\ \E k \in 1..Len(rendered.report.report_issues) :
         LET issue == rendered.report.report_issues[k]
         IN /\ state' = EditDialog(state, issue)
            /\ rendered' = EditDialog(rendered, issue)
    /\ uploads' = Replaced(uploads)
    /\ event' = "other"
    /\ UNCHANGED <<procs, store, navigated, budget, probe>>

\* the cancel button and onOpenChange(false): setIsIssueDialogOpen(false)
CloseDialog ==
    /\ DialogShown
    /\ state' = [state EXCEPT !.isIssueDialogOpen = FALSE]
    /\ rendered' = [rendered EXCEPT !.isIssueDialogOpen = FALSE]
    /\ event' = "other"
    /\ UNCHANGED <<uploads, procs, store, navigated, budget, probe>>

\* ------------------------------------------------- field edits of the draft
\* Every field handler of the dialog calls setCurrentIssue({...currentIssue, f}),
\* currentIssue being the value of the render the handler belongs to.
\* When that render is not the latest, the updates made since are lost with
\* the draft they were made to.
EditField(form) ==
    /\ DialogShown
    /\ state' = [state EXCEPT !.currentIssue = form]
    /\ rendered' = [rendered EXCEPT !.currentIssue = form]
    /\ uploads' = IF rendered.currentIssue = state.currentIssue THEN uploads
                  ELSE Replaced(uploads)
    /\ event' = "other"
    /\ UNCHANGED <<procs, store, navigated, probe>>

\* one more field edit of the bounded number of them
Edit(form) ==
    /\ budget.edits > 0
    /\ budget' = [budget EXCEPT !.edits = @ - 1]
    /\ EditField(form)

\* the main item select
SetMainItem ==
    \E v \in MainItemIds :
        Edit([rendered.currentIssue EXCEPT !.main_item_id = v])

\* the case radio group
SetCaseType ==
    \E v \in {"case1", "case2"} :
        /\ v # rendered.currentIssue.caseType
        /\ Edit([rendered.currentIssue EXCEPT !.caseType = v])

\* the sub item select of case 1 (shown for case1, enabled once a main item is set)
SetCase1SubItem ==
    /\ rendered.currentIssue.caseType = "case1"
    /\ rendered.currentIssue.main_item_id # ""
    /\ \E v \in SubItemIds :
        Edit([rendered.currentIssue EXCEPT
                      !.case1Data.sub_item_id = v,
                      !.case1Data.unit_price = getSubItemPrice(v)])

\* the quantity input of case 1: parseInt(e.target.value) || 1
SetCase1Quantity ==
    /\ rendered.currentIssue.caseType = "case1"
    /\ \E v \in {-1, 3} :
        /\ v # rendered.currentIssue.case1Data.quantity
        /\ Edit([rendered.currentIssue EXCEPT !.case1Data.quantity = v])

\* the unit price input of case 1: parseFloat(e.target.value) || 0
SetCase1UnitPrice ==
    /\ rendered.currentIssue.caseType = "case1"
    /\ \E v \in {0, 70} :
        /\ v # rendered.currentIssue.case1Data.unit_price
        /\ Edit([rendered.currentIssue EXCEPT !.case1Data.unit_price = v])

\* the sub item select of an entry of case 2
SetCase2SubItem ==
    /\ rendered.currentIssue.caseType = "case2"
    /\ rendered.currentIssue.main_item_id # ""
    /\ \E k \in 1..3, v \in SubItemIds :
        Edit([rendered.currentIssue EXCEPT
                      !.case2Data.items[k].sub_item_id = v,
                      !.case2Data.items[k].unit_price = getSubItemPrice(v)])

\* the unit price input of an entry of case 2: parseFloat(e.target.value) || 0
SetCase2UnitPrice ==
    /\ rendered.currentIssue.caseType = "case2"
    /\ \E k \in 1..3, v \in {0, 70} :
        /\ v # rendered.currentIssue.case2Data.items[k].unit_price
        /\ Edit([rendered.currentIssue EXCEPT !.case2Data.items[k].unit_price = v])

\* the quantity input of an entry of case 2: parseInt(e.target.value) || 1
SetCase2Quantity ==
    /\ rendered.currentIssue.caseType = "case2"
    /\ \E k \in 1..3, v \in {-1, 3} :
        /\ v # rendered.currentIssue.case2Data.items[k].quantity
        /\ Edit([rendered.currentIssue EXCEPT !.case2Data.items[k].quantity = v])

\* the notes input
SetNotes ==
    /\ rendered.currentIssue.notes # "n"
    /\ UNCHANGED budget
    /\ EditField([rendered.currentIssue EXCEPT !.notes = "n"])

\* ----------------------------------------------------------- photo uploads
\* live: the draft the upload was started on has not been replaced since
Upload(kind, index) ==
    [kind |-> kind, index |-> index, status |-> "pending", live |-> TRUE]

InFlight == {n \in 1..Len(uploads) : uploads[n].status = "pending"}

Case1Started(s, index, n) ==
    [s EXCEPT !.currentIssue = Case1Preview(@, index, blobUrl(n)),
              !.pendingUploads = @ + 1]

\* handleCase1PhotoUpload up to its await: a file was chosen for slot index
StartCase1Upload ==
    /\ DialogShown
    /\ rendered.currentIssue.caseType = "case1"
    /\ budget.uploads > 0
    /\ budget' = [budget EXCEPT !.uploads = @ - 1]
    /\ \E index \in 0..2 :
         LET n == Len(uploads) + 1
         IN /\ state' = Case1Started(state, index, n)
            /\ rendered' = Case1Started(rendered, index, n)
            /\ uploads' = Append(uploads, Upload("case1", index))
    /\ event' = "other"
    /\ UNCHANGED <<procs, store, navigated, probe>>

Case2Started(s, itemIndex, n) ==
    [s EXCEPT !.currentIssue = Case2Preview(@, itemIndex, blobUrl(n)),
              !.pendingUploads = @ + 1]

\* handleCase2PhotoUpload up to its await
StartCase2Upload ==
    /\ DialogShown
    /\ rendered.currentIssue.caseType = "case2"
    /\ budget.uploads > 0
    /\ budget' = [budget EXCEPT !.uploads = @ - 1]
    /\ \E itemIndex \in 0..2 :
         LET n == Len(uploads) + 1
         IN /\ state' = Case2Started(state, itemIndex, n)
            /\ rendered' = Case2Started(rendered, itemIndex, n)
            /\ uploads' = Append(uploads, Upload("case2", itemIndex))
    /\ event' = "other"
    /\ UNCHANGED <<procs, store, navigated, probe>>

\* the draft after upload n resolved with its public URL
ResolvedForm(prev, n) ==
    IF uploads[n].kind = "case1"
    THEN Case1Resolved(prev, uploads[n].index, blobUrl(n), publicUrl(n))
    ELSE Case2Resolved(prev, uploads[n].index, blobUrl(n), publicUrl(n))

\* the draft after upload n threw
RejectedForm(prev, n) ==
    IF uploads[n].kind = "case1"
    THEN Case1Rejected(prev, uploads[n].index, blobUrl(n))
    ELSE Case2Rejected(prev, uploads[n].index, blobUrl(n))

\* uploadPhoto resolved: the try block, then the finally block
UploadResolves ==
    \E n \in InFlight :
        /\ state' = [state EXCEPT !.currentIssue = ResolvedForm(@, n),
                                  !.pendingUploads = PendingAfterSettle(@)]
        /\ uploads' = [uploads EXCEPT ![n].status = "resolved"]
        /\ event' = "other"
        /\ UNCHANGED <<rendered, procs, store, navigated, budget, probe>>

\* uploadPhoto threw: the catch block, then the finally block
UploadRejects ==
    \E n \in InFlight :
        /\ state' = [state EXCEPT !.currentIssue = RejectedForm(@, n),
                                  !.pendingUploads = PendingAfterSettle(@)]
        /\ uploads' = [uploads EXCEPT ![n].status = "rejected"]
        /\ event' = "other"
        /\ UNCHANGED <<rendered, procs, store, navigated, budget, probe>>

\* ------------------------------------------------------------ loadReport
\* loadReport up to its await: setIsLoading(true), getReportById is called
StartLoad(s) == [s EXCEPT !.isLoading = TRUE]

\* loadReport after its await: setReport(data), or setReport(null) in the
\* catch block, then setIsLoading(false)
LoadSettled(s, data) == [s EXCEPT !.report = data, !.isLoading = FALSE]

Awaiting(pc) == {p \in 1..Len(procs) : procs[p].pc = pc}

CanStartFlow == budget.flows > 0

\* a call to the store settles: with its result, or (a bounded number of
\* times) with an error
Settles(ok) ==
    /\ ~ok => budget.faults > 0
    /\ budget' = IF ok THEN budget ELSE [budget EXCEPT !.faults = @ - 1]

Spent(b) == [b EXCEPT !.flows = @ - 1]

\* The store answers getReportById: with the report as it is now, or with an
\* error (the report is gone, or the request failed).
ReadReport ==
    \E p \in Awaiting("getReportById"), ok \in BOOLEAN :
        /\ Settles(ok)
        /\ ok => store.report
        /\ procs' = [procs EXCEPT ![p].pc = "loadResponse",
                                  ![p].data = IF ok THEN getReportById(store)
                                              ELSE NullReport]
        /\ event' = "other"
        /\ UNCHANGED <<state, rendered, uploads, store, navigated, probe>>

\* The answer arrives at the loadReport(id) call of the effect at mount.
InitialLoadSettles ==
    \E p \in Awaiting("loadResponse") :
        /\ procs[p].kind = "load"
        /\ state' = LoadSettled(state, procs[p].data)
        /\ procs' = [procs EXCEPT ![p].pc = "done", ![p].data = NullReport,
                                  ![p].outcome = "loaded"]
        /\ event' = "other"
        /\ UNCHANGED <<rendered, uploads, store, navigated, budget, probe>>

\* ------------------------------------------------------- handleSaveIssue
\* unit_price || getSubItemPrice(sub_item_id)
PriceOrCatalog(price, subItemId) ==
    IF price # 0 THEN price ELSE getSubItemPrice(subItemId)

\* the rows of the issue_items insert
InsertedItems(draft, issueId) ==
    IF draft.caseType = "case1"
    THEN <<ItemRow(issueId, draft.case1Data.sub_item_id, draft.case1Data.quantity,
                   PriceOrCatalog(draft.case1Data.unit_price,
                                  draft.case1Data.sub_item_id))>>
    ELSE [k \in 1..Len(draft.case2Data.items) |->
            ItemRow(issueId, draft.case2Data.items[k].sub_item_id,
                    draft.case2Data.items[k].quantity,
                    PriceOrCatalog(draft.case2Data.items[k].unit_price,
                                   draft.case2Data.items[k].sub_item_id))]

\* the rows of the issue_photos insert
InsertedPhotos(draft, issueId) ==
    IF draft.caseType = "case1"
    THEN [k \in 1..Len(draft.case1Data.photos) |->
            PhotoRow(issueId, draft.case1Data.photos[k])]
    ELSE [k \in 1..Len(draft.case2Data.items) |->
            PhotoRow(issueId, draft.case2Data.items[k].photo)]

\* the id the store gives to a new issue
NewIssueId == 1 + Len(SelectSeq(procs, LAMBDA q : q.kind = "save" /\ q.mode = "create"
                                                  /\ q.issueId # 0))
                + Cardinality(InitialIssueIds)

SaveBlockedNever(r) == FALSE

\* if (pendingUploads > 0) { alert(...); return; }
SaveBlockedByUploads(r) == r.pendingUploads > 0

SaveDecisionWhileSaving(r) ==
    IF ~r.report.present THEN "save:noReport"
    ELSE IF SaveBlockedByUploads(r) THEN "save:pending"
    ELSE IF ~validateIssue(r.currentIssue) THEN "save:invalid"
    ELSE "save:started"

\* the checks at the head of handleSaveIssue, on the values of its render
SaveDecision(r) ==
    IF r.isSavingIssue THEN "save:busy"
    ELSE IF ~r.report.present THEN "save:noReport"
    ELSE IF SaveBlockedByUploads(r) THEN "save:pending"
    ELSE IF ~validateIssue(r.currentIssue) THEN "save:invalid"
    ELSE "save:started"

SaveEvents == {"save:busy", "save:noReport", "save:pending", "save:invalid", "save:started"}

SaveProceedsWhenInvalid(decision) == decision \in {"save:started", "save:invalid"}

\* each failed check returns; the try block is entered when none failed
SaveProceeds(decision) == decision = "save:started"

\* the first call of the try block
FirstSaveCall(r) ==
    IF r.issueDialogMode = "create" THEN "createIssue"
    ELSE IF r.editingIssueId # 0 THEN "updateIssue"
    ELSE "none"

\* handleSaveIssue up to its first await
handleSaveIssue ==
    /\ DialogShown
    /\ event' = SaveDecision(rendered)
    /\ IF SaveProceeds(SaveDecision(rendered))
       THEN /\ CanStartFlow
            /\ LET call == FirstSaveCall(rendered)
                   started == [Proc("save", call) EXCEPT
                                  !.mode = rendered.issueDialogMode,
                                  !.draft = rendered.currentIssue,
                                  !.issueId = rendered.editingIssueId,
                                  !.writes = <<call>>]
               IN IF call = "none"
                  THEN \* no branch is taken: line 632 and loadReport follow at once
                       /\ state' = StartLoad(state)
                       /\ rendered' = StartLoad(rendered)
                       /\ procs' = Append(procs, [started EXCEPT !.pc = "getReportById",
                                                                 !.writes = <<>>])
                  ELSE /\ state' = [state EXCEPT !.isSavingIssue = TRUE]
                       /\ rendered' = [rendered EXCEPT !.isSavingIssue = TRUE]
                       /\ procs' = Append(procs, started)
            /\ budget' = Spent(budget)
       ELSE UNCHANGED <<state, rendered, procs, budget>>
    /\ UNCHANGED <<uploads, store, navigated, probe>>

\* the catch and finally blocks of handleSaveIssue: alert, setIsSavingIssue(false)
SaveThrown(p) ==
    /\ state' = [state EXCEPT !.isSavingIssue = FALSE]
    /\ procs' = [procs EXCEPT ![p].pc = "done", ![p].failed = TRUE,
                              ![p].alerted = TRUE, ![p].outcome = "alert"]

\* the flow awaits its next store call
Calls(p, call) ==
    procs' = [procs EXCEPT ![p].pc = call, ![p].writes = Append(@, call)]

CallsAfterError(p, call) ==
    procs' = [procs EXCEPT ![p].pc = call, ![p].writes = Append(@, call),
                           ![p].failed = TRUE]

\* issueService.createIssue settles: the row is inserted and returned, or the
\* service throws
CreateIssueSettles ==
    \E p \in Awaiting("createIssue"), ok \in BOOLEAN :
        /\ Settles(ok)
        /\ ok => store.report
        /\ IF ok
           THEN /\ store' = [store EXCEPT !.issues =
                        Append(@, [id |-> NewIssueId,
                                   issue_type |-> IF procs[p].draft.caseType = "case1"
                                                  THEN "single" ELSE "multiple",
                                   main_item_id |-> procs[p].draft.main_item_id,
                                   notes |-> procs[p].draft.notes])]
                /\ procs' = [procs EXCEPT ![p].pc = "insertItems",
                                          ![p].issueId = NewIssueId,
                                          ![p].writes = Append(@, "insertItems")]
                /\ UNCHANGED state
           ELSE /\ SaveThrown(p)
                /\ UNCHANGED store
        /\ event' = "other"
        /\ UNCHANGED <<rendered, uploads, navigated, probe>>

\* issueService.updateIssue settles: the row is updated, or the service throws
UpdateIssueSettles ==
    \E p \in Awaiting("updateIssue"), ok \in BOOLEAN :
        /\ Settles(ok)
        /\ ok => procs[p].issueId \in IssueIdsIn(store)
        /\ IF ok
           THEN /\ store' = [store EXCEPT !.issues =
                        [k \in 1..Len(@) |->
                            IF @[k].id = procs[p].issueId
                            THEN [id |-> @[k].id,
                                  issue_type |-> IF procs[p].draft.caseType = "case1"
                                                 THEN "single" ELSE "multiple",
                                  main_item_id |-> procs[p].draft.main_item_id,
                                  notes |-> procs[p].draft.notes]
                            ELSE @[k]]]
                /\ Calls(p, "deleteItems")
                /\ UNCHANGED state
           ELSE /\ SaveThrown(p)
                /\ UNCHANGED store
        /\ event' = "other"
        /\ UNCHANGED <<rendered, uploads, navigated, probe>>

KeepItems(st, ids) == st

\* supabase.from("issue_items").delete() of the issues ids
WithoutItems(st, ids) == [st EXCEPT !.items = RowsNotOf(@, ids)]

KeepPhotos(st, ids) == st

\* supabase.from("issue_photos").delete() of the issues ids
WithoutPhotos(st, ids) == [st EXCEPT !.photos = RowsNotOf(@, ids)]

\* A supabase query resolves to {data, error}: an error is a value the flow
\* does not look at, the next call follows in both cases.
\* edit branch: the issue_items delete settles
DeleteItemsSettles ==
    \E p \in Awaiting("deleteItems"), ok \in BOOLEAN :
        /\ Settles(ok)
        /\ IF ok
           THEN /\ store' = WithoutItems(store, {procs[p].issueId})
                /\ Calls(p, "deletePhotos")
           ELSE /\ UNCHANGED store
                /\ CallsAfterError(p, "deletePhotos")
        /\ event' = "other"
        /\ UNCHANGED <<state, rendered, uploads, navigated, probe>>

\* edit branch: the issue_photos delete settles
DeletePhotosSettles ==
    \E p \in Awaiting("deletePhotos"), ok \in BOOLEAN :
        /\ Settles(ok)
        /\ IF ok
           THEN /\ store' = WithoutPhotos(store, {procs[p].issueId})
                /\ Calls(p, "insertItems")
           ELSE /\ UNCHANGED store
                /\ CallsAfterError(p, "insertItems")
        /\ event' = "other"
        /\ UNCHANGED <<state, rendered, uploads, navigated, probe>>

\* both branches: the issue_items insert settles (the rows need their issue)
InsertItemsSettles ==
    \E p \in Awaiting("insertItems"), ok \in BOOLEAN :
        /\ Settles(ok)
        /\ ok => procs[p].issueId \in IssueIdsIn(store)
        /\ IF ok
           THEN /\ store' = [store EXCEPT !.items =
                                @ \o InsertedItems(procs[p].draft, procs[p].issueId)]
                /\ Calls(p, "insertPhotos")
           ELSE /\ UNCHANGED store
                /\ CallsAfterError(p, "insertPhotos")
        /\ event' = "other"
        /\ UNCHANGED <<state, rendered, uploads, navigated, probe>>

\* both branches: the issue_photos insert settles; then setIsSavingIssue(false)
\* and loadReport(id) up to its await
InsertPhotosSettles ==
    \E p \in Awaiting("insertPhotos"), ok \in BOOLEAN :
        /\ Settles(ok)
        /\ ok => procs[p].issueId \in IssueIdsIn(store)
        /\ IF ok
           THEN /\ store' = [store EXCEPT !.photos =
                                @ \o InsertedPhotos(procs[p].draft, procs[p].issueId)]
                /\ procs' = [procs EXCEPT ![p].pc = "getReportById"]
           ELSE /\ UNCHANGED store
                /\ procs' = [procs EXCEPT ![p].pc = "getReportById", ![p].failed = TRUE]
        /\ state' = StartLoad([state EXCEPT !.isSavingIssue = FALSE])
        /\ event' = "other"
        /\ UNCHANGED <<rendered, uploads, navigated, probe>>

\* resetIssueForm(); setIsIssueDialogOpen(false); finally setIsSavingIssue(false)
SaveFinished(s) ==
    [resetIssueForm(s) EXCEPT !.isIssueDialogOpen = FALSE, !.isSavingIssue = FALSE]

\* loadReport(id) of handleSaveIssue settles (it never throws); the form is
\* reset and the dialog closed
SaveLoadSettles ==
    \E p \in Awaiting("loadResponse") :
        /\ procs[p].kind = "save"
        /\ state' = SaveFinished(LoadSettled(state, procs[p].data))
        /\ uploads' = Replaced(uploads)
        /\ procs' = [procs EXCEPT ![p].pc = "done", ![p].outcome = "closed",
                                  ![p].data = NullReport]
        /\ event' = "other"
        /\ UNCHANGED <<rendered, store, navigated, budget, probe>>

\* ----------------------------------------------------- handleDeleteIssue
WithoutIssueKept(s, issueId) == s

\* the optimistic removal: report_issues without the issue
WithoutIssue(s, issueId) ==
    IF s.report.present
    THEN [s EXCEPT !.report.report_issues =
            SelectSeq(@, LAMBDA issue : issue.id # issueId)]
    ELSE s

\* handleDeleteIssue(issue.id), confirmed, up to its await
handleDeleteIssue ==
    /\ PageShown
    /\ CanStartFlow
    /\ \E k \in 1..Len(rendered.report.report_issues) :
         LET issueId == rendered.report.report_issues[k].id
         IN /\ state' = WithoutIssue(state, issueId)
            /\ rendered' = WithoutIssue(rendered, issueId)
            /\ procs' = Append(procs, [Proc("deleteIssue", "deleteIssue") EXCEPT
                                          !.issueId = issueId,
                                          !.writes = <<"deleteIssue">>])
    /\ budget' = Spent(budget)
    /\ event' = "other"
    /\ UNCHANGED <<uploads, store, navigated, probe>>

\* deleting issues: their items and photos go with them (cascade of the store)
WithoutIssues(st, ids) ==
    [st EXCEPT !.issues = SelectSeq(@, LAMBDA row : row.id \notin ids),
               !.items = RowsNotOf(@, ids),
               !.photos = RowsNotOf(@, ids)]

\* issueService.deleteIssue settles; loadReport(id) is called in both cases,
\* after the alert of the catch block when the service threw
DeleteIssueSettles ==
    \E p \in Awaiting("deleteIssue"), ok \in BOOLEAN :
        /\ Settles(ok)
        /\ IF ok
           THEN /\ store' = WithoutIssues(store, {procs[p].issueId})
                /\ procs' = [procs EXCEPT ![p].pc = "getReportById"]
           ELSE /\ UNCHANGED store
                /\ procs' = [procs EXCEPT ![p].pc = "getReportById",
                                          ![p].failed = TRUE, ![p].alerted = TRUE,
                                          ![p].outcome = "alert"]
        /\ state' = StartLoad(state)
        /\ event' = "other"
        /\ UNCHANGED <<rendered, uploads, navigated, probe>>

\* loadReport(id) of handleDeleteIssue settles; the toast follows in the try block
DeleteIssueLoadSettles ==
    \E p \in Awaiting("loadResponse") :
        /\ procs[p].kind = "deleteIssue"
        /\ state' = LoadSettled(state, procs[p].data)
        /\ procs' = [procs EXCEPT ![p].pc = "done", ![p].data = NullReport,
                                  ![p].outcome = IF procs[p].failed THEN "alert"
                                                 ELSE "toast"]
        /\ event' = "other"
        /\ UNCHANGED <<rendered, uploads, store, navigated, budget, probe>>

\* ---------------------------------------------------- handleDeleteReport
ReportOnlyOrder(hasIssues) == "deleteReport"

\* if (issueIds.length > 0) the three batch deletes come before deleteReport
FirstDeleteCall(hasIssues) == IF hasIssues THEN "batchDeleteItems" ELSE "deleteReport"

\* handleDeleteReport, confirmed, up to its first await (the button is
\* disabled while isDeleting)
handleDeleteReport ==
    /\ PageShown
    /\ ~rendered.isDeleting
    /\ CanStartFlow
    /\ LET issueIds == {rendered.report.report_issues[k].id :
                            k \in 1..Len(rendered.report.report_issues)}
           call == FirstDeleteCall(issueIds # {})
       IN procs' = Append(procs, [Proc("deleteReport", call) EXCEPT
                                     !.issueIds = issueIds, !.writes = <<call>>])
    /\ state' = [state EXCEPT !.isDeleting = TRUE]
    /\ rendered' = [rendered EXCEPT !.isDeleting = TRUE]
    /\ budget' = Spent(budget)
    /\ event' = "other"
    /\ UNCHANGED <<uploads, store, navigated, probe>>

\* the issue_items batch delete settles
BatchDeleteItemsSettles ==
    \E p \in Awaiting("batchDeleteItems"), ok \in BOOLEAN :
        /\ Settles(ok)
        /\ IF ok
           THEN /\ store' = WithoutItems(store, procs[p].issueIds)
                /\ Calls(p, "batchDeletePhotos")
           ELSE /\ UNCHANGED store
                /\ CallsAfterError(p, "batchDeletePhotos")
        /\ event' = "other"
        /\ UNCHANGED <<state, rendered, uploads, navigated, probe>>

\* the issue_photos batch delete settles
BatchDeletePhotosSettles ==
    \E p \in Awaiting("batchDeletePhotos"), ok \in BOOLEAN :
        /\ Settles(ok)
        /\ IF ok
           THEN /\ store' = WithoutPhotos(store, procs[p].issueIds)
                /\ Calls(p, "batchDeleteIssues")
           ELSE /\ UNCHANGED store
                /\ CallsAfterError(p, "batchDeleteIssues")
        /\ event' = "other"
        /\ UNCHANGED <<state, rendered, uploads, navigated, probe>>

\* the report_issues batch delete settles
BatchDeleteIssuesSettles ==
    \E p \in Awaiting("batchDeleteIssues"), ok \in BOOLEAN :
        /\ Settles(ok)
        /\ IF ok
           THEN /\ store' = WithoutIssues(store, procs[p].issueIds)
                /\ Calls(p, "deleteReport")
           ELSE /\ UNCHANGED store
                /\ CallsAfterError(p, "deleteReport")
        /\ event' = "other"
        /\ UNCHANGED <<state, rendered, uploads, navigated, probe>>

\* reportService.deleteReport settles: toast and router.push, or the alert of
\* the catch block; finally setIsDeleting(false)
DeleteReportSettles ==
    \E p \in Awaiting("deleteReport"), ok \in BOOLEAN :
        /\ Settles(ok)
        /\ IF ok
           THEN /\ store' = [store EXCEPT !.report = FALSE]
                /\ navigated' = TRUE
                /\ procs' = [procs EXCEPT ![p].pc = "done", ![p].outcome = "toast"]
           ELSE /\ UNCHANGED <<store, navigated>>
                /\ procs' = [procs EXCEPT ![p].pc = "done", ![p].failed = TRUE,
                                          ![p].alerted = TRUE, ![p].outcome = "alert"]
        /\ state' = [state EXCEPT !.isDeleting = FALSE]
        /\ event' = "other"
        /\ UNCHANGED <<rendered, uploads, probe>>

\* ------------------------------------------------------ the specification
Next ==
    \/ Render
    \/ ReadReport
    \/ InitialLoadSettles
    \/ openAddIssueDialog
    \/ openEditIssueDialog
    \/ CloseDialog
    \/ SetMainItem
    \/ SetCaseType
    \/ SetCase1SubItem
    \/ SetCase1Quantity
    \/ SetCase1UnitPrice
    \/ SetCase2SubItem
    \/ SetCase2Quantity
    \/ SetCase2UnitPrice
    \/ SetNotes
    \/ StartCase1Upload
    \/ StartCase2Upload
    \/ UploadResolves
    \/ UploadRejects
    \/ handleSaveIssue
    \/ CreateIssueSettles
    \/ UpdateIssueSettles
    \/ DeleteItemsSettles
    \/ DeletePhotosSettles
    \/ InsertItemsSettles
    \/ InsertPhotosSettles
    \/ SaveLoadSettles
    \/ handleDeleteIssue
    \/ DeleteIssueSettles
    \/ DeleteIssueLoadSettles
    \/ handleDeleteReport
    \/ BatchDeleteItemsSettles
    \/ BatchDeletePhotosSettles
    \/ BatchDeleteIssuesSettles
    \/ DeleteReportSettles

Spec == Init /\ [][Next]_vars

\* The draft and its uploads alone: no flow writes to the store.
InitUpload ==
    /\ state = InitialState
    /\ rendered = InitialState
    /\ uploads = <<>>
    /\ procs = <<Proc("load", "getReportById")>>
    /\ store = InitialStore
    /\ navigated = FALSE
    /\ event = "mount"
    /\ budget = [uploads |-> DraftUploads, edits |-> 0, flows |-> 0, faults |-> 0]
    /\ probe = NoProbe

NextUpload ==
    \/ Render
    \/ ReadReport
    \/ InitialLoadSettles
    \/ openAddIssueDialog
    \/ openEditIssueDialog
    \/ CloseDialog
    \/ SetNotes
    \/ StartCase1Upload
    \/ StartCase2Upload
    \/ UploadResolves
    \/ UploadRejects

SpecUpload == InitUpload /\ [][NextUpload]_vars

\* The page has loaded the report and the user has the issue dialog open with
\* a form that is empty, as hydrated, or filled in (its uploads all resolved
\* and rendered).
FilledCase1 ==
    [sub_item_id |-> "s1", quantity |-> 2, unit_price |-> 50,
     photos |-> <<publicUrl(11), publicUrl(12), publicUrl(13)>>]

FilledCase2 ==
    [items |-> [k \in 1..3 |->
        [sub_item_id |-> "s1", quantity |-> k, unit_price |-> 50,
         photo |-> publicUrl(20 + k)]]]

Loaded == LoadSettled(InitialState, getReportById(InitialStore))

\* forms of the add dialog
CreateDrafts ==
    { EmptyForm,
      [EmptyForm EXCEPT !.main_item_id = "m1", !.case1Data = FilledCase1],
      [EmptyForm EXCEPT !.main_item_id = "m1",
                        !.case1Data = [FilledCase1 EXCEPT !.photos[3] = NoPhoto]],
      [EmptyForm EXCEPT !.main_item_id = "m1",
                        !.case1Data = [FilledCase1 EXCEPT !.unit_price = 0]],
      [EmptyForm EXCEPT !.main_item_id = "m1", !.caseType = "case2",
                        !.case2Data = FilledCase2] }

\* forms of the edit dialog of an issue: as hydrated, or the other case filled in
EditDrafts(issue) ==
    { HydratedForm(issue),
      IF issue.issue_type = "single"
      THEN [HydratedForm(issue) EXCEPT !.caseType = "case2", !.case2Data = FilledCase2]
      ELSE [HydratedForm(issue) EXCEPT !.caseType = "case1", !.case1Data = FilledCase1] }

EditDialogs ==
    { [EditDialog(Loaded, Loaded.report.report_issues[k]) EXCEPT !.currentIssue = draft] :
        <<k, draft>> \in
            UNION { {k} \X EditDrafts(Loaded.report.report_issues[k]) :
                        k \in 1..Len(Loaded.report.report_issues) } }

AddDialogs == { [AddDialog(Loaded) EXCEPT !.currentIssue = draft] : draft \in CreateDrafts }

LoadDone == [Proc("load", "done") EXCEPT !.outcome = "loaded"]

\* handleSaveIssue and the writes of its flows, for sequences of saves.
InitSave ==
    /\ state \in AddDialogs \cup EditDialogs
    /\ rendered = state
    /\ uploads = <<>>
    /\ procs = <<LoadDone>>
    /\ store = InitialStore
    /\ navigated = FALSE
    /\ event = "other"
    /\ budget = [uploads |-> 0, edits |-> 0, flows |-> SaveOps, faults |-> SaveFaults]
    /\ probe = NoProbe

NextSave ==
    \/ Render
    \/ ReadReport
    \/ openAddIssueDialog
    \/ openEditIssueDialog
    \/ CloseDialog
    \/ handleSaveIssue
    \/ CreateIssueSettles
    \/ UpdateIssueSettles
    \/ DeleteItemsSettles
    \/ DeletePhotosSettles
    \/ InsertItemsSettles
    \/ InsertPhotosSettles
    \/ SaveLoadSettles

SpecSave == InitSave /\ [][NextSave]_vars

\* handleSaveIssue while photos are uploaded; every store call succeeds.
InitGate ==
    /\ state \in AddDialogs \cup EditDialogs
    /\ rendered = state
    /\ uploads = <<>>
    /\ procs = <<LoadDone>>
    /\ store = InitialStore
    /\ navigated = FALSE
    /\ event = "other"
    /\ budget = [uploads |-> GateUploads, edits |-> 0, flows |-> GateOps, faults |-> 0]
    /\ probe = NoProbe

NextGate ==
    \/ Render
    \/ ReadReport
    \/ StartCase1Upload
    \/ StartCase2Upload
    \/ UploadResolves
    \/ UploadRejects
    \/ handleSaveIssue
    \/ CreateIssueSettles
    \/ UpdateIssueSettles
    \/ DeleteItemsSettles
    \/ DeletePhotosSettles
    \/ InsertItemsSettles
    \/ InsertPhotosSettles
    \/ SaveLoadSettles

SpecGate == InitGate /\ [][NextGate]_vars

\* The two delete handlers of the page, from the mount of the page.
InitDelete ==
    /\ state = InitialState
    /\ rendered = InitialState
    /\ uploads = <<>>
    /\ procs = <<Proc("load", "getReportById")>>
    /\ store = InitialStore
    /\ navigated = FALSE
    /\ event = "mount"
    /\ budget = [uploads |-> 0, edits |-> 0, flows |-> DeleteOps,
                 faults |-> DeleteFaults]
    /\ probe = NoProbe

NextDelete ==
    \/ Render
    \/ ReadReport
    \/ InitialLoadSettles
    \/ handleDeleteIssue
    \/ DeleteIssueSettles
    \/ DeleteIssueLoadSettles
    \/ handleDeleteReport
    \/ BatchDeleteItemsSettles
    \/ BatchDeletePhotosSettles
    \/ BatchDeleteIssuesSettles
    \/ DeleteReportSettles

SpecDelete == InitDelete /\ [][NextDelete]_vars

\* --------------------------------------------- validateIssue on its inputs
RECURSIVE SeqsUpTo(_, _)
\* the sequences over S of length at most n
SeqsUpTo(S, n) ==
    IF n = 0 THEN {<<>>}
    ELSE LET shorter == SeqsUpTo(S, n - 1)
         IN shorter \cup {Append(q, x) : q \in {r \in shorter : Len(r) = n - 1}, x \in S}

\* one entry that passes the four conditions, and entries failing one of them
EntryInputs ==
    { [sub_item_id |-> "s1", quantity |-> 2, unit_price |-> 50, photo |-> publicUrl(1)],
      [sub_item_id |-> "", quantity |-> 2, unit_price |-> 50, photo |-> publicUrl(1)],
      [sub_item_id |-> "s1", quantity |-> 0, unit_price |-> 50, photo |-> publicUrl(1)],
      [sub_item_id |-> "s1", quantity |-> 2, unit_price |-> 0, photo |-> publicUrl(1)],
      [sub_item_id |-> "s1", quantity |-> 2, unit_price |-> 50, photo |-> NoPhoto] }

Case1Inputs ==
    [sub_item_id : {"", "s1"}, quantity : {-1, 0, 2}, unit_price : {-5, 0, 50},
     photos : SeqsUpTo({NoPhoto, Undefined, publicUrl(1)}, MaxPhotos)]

Case2Inputs == [items : SeqsUpTo(EntryInputs, MaxEntries)]

ValidationInputs ==
    [caseType : {"case1"}, main_item_id : {"", "m1"}, notes : {""},
     case1Data : Case1Inputs, case2Data : {EmptyCase2, FilledCase2}]
    \cup
    [caseType : {"case2"}, main_item_id : {"", "m1"}, notes : {""},
     case1Data : {EmptyCase1, FilledCase1}, case2Data : Case2Inputs]

InitValidate ==
    /\ state = InitialState
    /\ rendered = InitialState
    /\ uploads = <<>>
    /\ procs = <<Proc("load", "getReportById")>>
    /\ store = InitialStore
    /\ navigated = FALSE
    /\ event = "mount"
    /\ budget = [uploads |-> 0, edits |-> 0, flows |-> 0, faults |-> 0]
    /\ probe \in [draft : ValidationInputs, checked : {FALSE}, result : {FALSE}]

\* validateIssue() is run on the draft
Validate ==
    /\ ~probe.checked
    /\ probe' = [probe EXCEPT !.checked = TRUE, !.result = validateIssue(probe.draft)]
    /\ UNCHANGED <<state, rendered, uploads, procs, store, navigated, event, budget>>

NextValidate == Validate

SpecValidate == InitValidate /\ [][NextValidate]_vars

\* ------------------------------------------------- photo-upload properties
\* the photo slot an upload was started for, read from a draft
Slot(form, up) ==
    IF up.kind = "case1"
    THEN At(form.case1Data.photos, up.index)
    ELSE form.case2Data.items[up.index + 1].photo

SameSlot(n1, n2) ==
    /\ uploads[n1].kind = uploads[n2].kind
    /\ uploads[n1].index = uploads[n2].index

\* the draft equals form but for the slot of up, which holds url
OnlySlotChanged(form, up, url, after) ==
    /\ Slot(after, up) = url
    /\ after.caseType = form.caseType
    /\ after.main_item_id = form.main_item_id
    /\ after.notes = form.notes
    /\ IF up.kind = "case1"
       THEN /\ after.case2Data = form.case2Data
            /\ after.case1Data.sub_item_id = form.case1Data.sub_item_id
            /\ after.case1Data.quantity = form.case1Data.quantity
            /\ after.case1Data.unit_price = form.case1Data.unit_price
            /\ \A k \in 0..2 : k # up.index =>
                   At(after.case1Data.photos, k) = At(form.case1Data.photos, k)
       ELSE /\ after.case1Data = form.case1Data
            /\ Len(after.case2Data.items) = Len(form.case2Data.items)
            /\ \A k \in 1..Len(form.case2Data.items) :
                   IF k = up.index + 1
                   THEN [after.case2Data.items[k] EXCEPT !.photo = NoPhoto]
                            = [form.case2Data.items[k] EXCEPT !.photo = NoPhoto]
                   ELSE after.case2Data.items[k] = form.case2Data.items[k]

\* C1: when an upload resolves, the draft takes its public URL into the slot
\* only if the slot still holds that upload's own preview URL, and nothing else
\* of the draft changes; if the slot holds anything else (another upload's
\* preview or URL, or the slot of a reset or reopened form) the draft is left
\* exactly as it was.
C1_CompletionOnlyOverOwnPreview ==
    [][\A n \in 1..Len(uploads) :
          (uploads[n].status = "pending" /\ uploads'[n].status = "resolved") =>
              IF Slot(state.currentIssue, uploads[n]) = blobUrl(n)
              THEN OnlySlotChanged(state.currentIssue, uploads[n], publicUrl(n),
                                   state'.currentIssue)
              ELSE state'.currentIssue = state.currentIssue]_vars

\* an upload that resolved after its form was replaced left no URL, while a
\* later upload that resolved over its own preview did
C1_Witness ==
    \E n, m \in 1..Len(uploads) :
        /\ n < m
        /\ uploads[n].status = "resolved" /\ ~uploads[n].live
        /\ uploads[m].status = "resolved" /\ uploads[m].live
        /\ Slot(state.currentIssue, uploads[m]) = publicUrl(m)
        /\ \A k \in 0..2 : At(state.currentIssue.case1Data.photos, k) # publicUrl(n)
        /\ \A k \in 1..Len(state.currentIssue.case2Data.items) :
               state.currentIssue.case2Data.items[k].photo # publicUrl(n)

\* C2: of two uploads started for the same slot, the first never writes the
\* slot once the second has started, whichever settles first; and while the
\* draft is not replaced as a whole, once both have settled the slot holds the
\* public URL of the later one, or is empty if the later one failed.
C2_LaterUploadWins ==
    \A n1, n2 \in 1..Len(uploads) :
        (n1 < n2 /\ SameSlot(n1, n2)) =>
            /\ Slot(state.currentIssue, uploads[n1]) \notin {blobUrl(n1), publicUrl(n1)}
            /\ ( /\ uploads[n1].status # "pending"
                 /\ uploads[n2].status # "pending"
                 /\ uploads[n2].live
                 /\ \A n3 \in 1..Len(uploads) : n3 > n2 => ~SameSlot(n2, n3) )
               => Slot(state.currentIssue, uploads[n2])
                    = IF uploads[n2].status = "resolved" THEN publicUrl(n2) ELSE NoPhoto

\* two uploads on one slot of a multi-entry draft have both resolved
C2_Witness ==
    \E n1, n2 \in 1..Len(uploads) :
        /\ n1 < n2 /\ SameSlot(n1, n2)
        /\ uploads[n1].status = "resolved" /\ uploads[n2].status = "resolved"
        /\ uploads[n1].live /\ uploads[n2].live
        /\ Slot(state.currentIssue, uploads[n2]) = publicUrl(n2)

\* C3: pendingUploads is the number of uploads started and not yet settled:
\* +1 per start, -1 per settle whether it resolved or threw, never below 0,
\* and 0 once every started upload has settled.
C3_PendingCountsInFlight ==
    /\ state.pendingUploads = Cardinality(InFlight)
    /\ state.pendingUploads >= 0

\* two uploads ran, one resolved and one threw, and the counter is back at 0
C3_Witness ==
    /\ Len(uploads) = 2
    /\ \E n, m \in 1..2 : uploads[n].status = "resolved" /\ uploads[m].status = "rejected"
    /\ state.pendingUploads = 0

\* --------------------------------------------------- save-gate properties
\* C4: a call of handleSaveIssue made while pendingUploads > 0 starts no save
\* flow and issues no store write (no issue insert or update, no item or photo
\* delete or insert), and leaves the draft, the dialog and every other state
\* value of the page as they were.
C4_NoSaveWhileUploading ==
    [][(event' \in SaveEvents /\ state.pendingUploads > 0) =>
          /\ store' = store
          /\ procs' = procs
          /\ state' = state]_vars

\* the save button handler ran while an upload was in flight and refused
C4_Witness ==
    /\ event = "save:pending"
    /\ state.pendingUploads > 0
    /\ state.isIssueDialogOpen
    /\ Len(procs) = 1

\* C5: a call of handleSaveIssue whose draft validateIssue rejects writes
\* nothing to the store, starts no flow (so nothing is retried later), and
\* leaves the draft unchanged and the dialog open.
C5_RejectedDraftNotSaved ==
    [][event' = "save:invalid" =>
          /\ store' = store
          /\ procs' = procs
          /\ state' = state
          /\ state'.isIssueDialogOpen]_vars

\* a draft with two of its three photos was refused and is still in the dialog
C5_Witness ==
    /\ event = "save:invalid"
    /\ state.isIssueDialogOpen
    /\ state.currentIssue.main_item_id # ""
    /\ CountTruthy(state.currentIssue.case1Data.photos) = 2
    /\ store = InitialStore

\* --------------------------------------------------- validation properties
NonEmptyPhotos(photos) == {k \in 1..Len(photos) : photos[k] \notin {NoPhoto, Undefined}}

CompleteEntries(items) ==
    {k \in 1..Len(items) :
        /\ items[k].sub_item_id # ""
        /\ items[k].photo \notin {NoPhoto, Undefined}
        /\ items[k].quantity > 0
        /\ items[k].unit_price > 0}

\* C6: a case1 draft is accepted exactly when the main item and the sub item
\* are set, exactly 3 photo entries are non-empty, quantity > 0 and
\* unit_price > 0; nothing of case2Data enters the condition.
C6_Case1Rule ==
    (probe.checked /\ probe.draft.caseType = "case1") =>
        (probe.result <=>
            /\ probe.draft.main_item_id # ""
            /\ probe.draft.case1Data.sub_item_id # ""
            /\ Cardinality(NonEmptyPhotos(probe.draft.case1Data.photos)) = 3
            /\ probe.draft.case1Data.quantity > 0
            /\ probe.draft.case1Data.unit_price > 0)

\* a case1 draft with 3 photos among 4 entries was accepted while its
\* case2Data holds no complete entry
C6_Witness ==
    /\ probe.checked /\ probe.result
    /\ probe.draft.caseType = "case1"
    /\ Len(probe.draft.case1Data.photos) = 4
    /\ probe.draft.case2Data = EmptyCase2

\* C7: a case2 draft is accepted exactly when the main item is set and exactly
\* 3 entries of case2Data.items have a sub item, a photo, quantity > 0 and
\* unit_price > 0, however many entries there are; nothing of case1Data enters
\* the condition.
C7_Case2Rule ==
    (probe.checked /\ probe.draft.caseType = "case2") =>
        (probe.result <=>
            /\ probe.draft.main_item_id # ""
            /\ Cardinality(CompleteEntries(probe.draft.case2Data.items)) = 3)

\* a case2 draft of 4 entries, 3 of them complete, was accepted while its
\* case1Data is the empty template
C7_Witness ==
    /\ probe.checked /\ probe.result
    /\ probe.draft.caseType = "case2"
    /\ Len(probe.draft.case2Data.items) = 4
    /\ probe.draft.case1Data = EmptyCase1

\* ------------------------------------------------------ store properties
WritesDone(p) == procs[p].pc \in {"getReportById", "loadResponse", "done"}

\* p is the latest save flow of its issue
LatestSaveOf(p) ==
    \A q \in 1..Len(procs) :
        (q > p /\ procs[q].kind = "save") => procs[q].issueId # procs[p].issueId

\* C8: once the writes of an edit-mode save have all succeeded, and until a
\* later save of the same issue starts, the store holds for that issue exactly
\* 1 item and 3 photos when the saved draft is case1, and 3 items and 3 photos
\* when it is case2, whatever rows and variant the issue had before and
\* whatever saves came earlier.
C8_EditSaveCardinality ==
    \A p \in 1..Len(procs) :
        ( /\ procs[p].kind = "save" /\ procs[p].mode = "edit"
          /\ WritesDone(p) /\ ~procs[p].failed
          /\ LatestSaveOf(p) )
        => /\ Len(RowsOf(store.items, procs[p].issueId))
                = IF procs[p].draft.caseType = "case1" THEN 1 ELSE 3
           /\ Len(RowsOf(store.photos, procs[p].issueId)) = 3

\* issue 1, stored as a single issue with 2 items and 4 photos, was saved from
\* the edit dialog as a case2 draft, reopened and saved again
C8_Witness ==
    \E p, q \in 1..Len(procs) :
        /\ p < q
        /\ \A r \in {p, q} :
               /\ procs[r].kind = "save" /\ procs[r].mode = "edit"
               /\ procs[r].issueId = 1 /\ procs[r].draft.caseType = "case2"
               /\ procs[r].pc = "done" /\ procs[r].outcome = "closed"
               /\ ~procs[r].failed
        /\ Len(RowsOf(store.items, 1)) = 3 /\ Len(RowsOf(store.photos, 1)) = 3

IsPrefix(s, t) == Len(s) <= Len(t) /\ \A k \in 1..Len(s) : s[k] = t[k]

\* C9: the deletes of handleDeleteReport are issued in one order: the items
\* and the photos of the report's issues, then the issues, then the report;
\* the report delete is never issued before the issues delete, nor the issues
\* delete before the items and photos deletes. With no issue in the report the
\* report delete is the only one.
C9_DeleteOrder ==
    \A p \in 1..Len(procs) :
        procs[p].kind = "deleteReport" =>
            /\ procs[p].writes # <<>>
            /\ IF procs[p].issueIds # {}
               THEN IsPrefix(procs[p].writes,
                             <<"batchDeleteItems", "batchDeletePhotos",
                               "batchDeleteIssues", "deleteReport">>)
               ELSE procs[p].writes = <<"deleteReport">>

\* a report with issues was deleted: the four deletes were issued and the store
\* holds neither the report nor any of its rows
C9_Witness ==
    \E p \in 1..Len(procs) :
        /\ procs[p].kind = "deleteReport" /\ procs[p].issueIds = InitialIssueIds
        /\ Len(procs[p].writes) = 4
        /\ procs[p].outcome = "toast"
        /\ ~store.report /\ store.issues = <<>> /\ store.items = <<>>
        /\ store.photos = <<>>

\* C10: a flow of handleSaveIssue, handleDeleteIssue or handleDeleteReport one
\* of whose store writes failed shows an alert and does not end in its success
\* outcome (dialog closed and draft reset, or success notice and navigation).
C10_WriteFailureSurfaced ==
    \A p \in 1..Len(procs) :
        (procs[p].failed /\ procs[p].pc = "done") =>
            /\ procs[p].alerted
            /\ procs[p].outcome \notin {"closed", "toast"}

\* ------------------------------------------------------- price properties
\* a case1 draft complete in every field but the unit price, which is 0
UnsetPriceDraft(ci) ==
    /\ ci.caseType = "case1"
    /\ ci.main_item_id # ""
    /\ ci.case1Data.sub_item_id \in SubItemIds
    /\ Cardinality(NonEmptyPhotos(ci.case1Data.photos)) = 3
    /\ ci.case1Data.quantity > 0
    /\ ci.case1Data.unit_price = 0

\* C11: a case1 draft with 3 photos whose unit price is left at 0 is saved
\* when the save button is pressed (no save running, no upload pending): the
\* issue is created, its price falling back to the price of the sub item.
C11_UnsetPriceIsSaved ==
    [][( /\ event' \in SaveEvents
         /\ UnsetPriceDraft(rendered.currentIssue)
         /\ ~rendered.isSavingIssue
         /\ rendered.report.present
         /\ rendered.pendingUploads = 0 )
       => event' = "save:started"]_vars

\* ------------------------------------------------- order of the save writes
EditWrites == <<"updateIssue", "deleteItems", "deletePhotos", "insertItems", "insertPhotos">>

EditSaves == {p \in 1..Len(procs) : procs[p].kind = "save" /\ procs[p].mode = "edit"}

\* the call the flow p awaited has returned its first error in this step
FirstErrorAt(p, call) ==
    /\ procs[p].pc = call
    /\ ~procs[p].failed
    /\ procs'[p].failed

\* C12: an edit-mode save issues its writes in the order update issue, delete
\* items, delete photos, insert items, insert photos and issues no other
\* write; when the items insert fails after the deletes the issue is left with
\* no item and no photo before the photos insert, when the photos insert fails
\* it is left with no photo; and once the writes of the save are over the rows
\* of the issue stay as they are (nothing restores the deleted rows) until
\* another save of that issue.
C12_EditWriteOrder ==
    /\ [](\A p \in EditSaves : IsPrefix(procs[p].writes, EditWrites))
    /\ [][\A p \in EditSaves :
            /\ FirstErrorAt(p, "insertItems") =>
                   /\ RowsOf(store'.items, procs[p].issueId) = <<>>
                   /\ RowsOf(store'.photos, procs[p].issueId) = <<>>
            /\ FirstErrorAt(p, "insertPhotos") =>
                   RowsOf(store'.photos, procs[p].issueId) = <<>>
            /\ (WritesDone(p) /\ LatestSaveOf(p)) =>
                   /\ RowsOf(store'.items, procs[p].issueId)
                        = RowsOf(store.items, procs[p].issueId)
                   /\ RowsOf(store'.photos, procs[p].issueId)
                        = RowsOf(store.photos, procs[p].issueId)]_vars

\* the items insert of an edit-mode save of issue 1 failed: the five writes
\* were issued, the flow is over and issue 1 has its 3 new photos and no item
C12_Witness ==
    \E p \in EditSaves :
        /\ procs[p].issueId = 1
        /\ procs[p].writes = EditWrites
        /\ procs[p].failed /\ procs[p].pc = "done"
        /\ 1 \in IssueIdsIn(store)
        /\ RowsOf(store.items, 1) = <<>>
        /\ Len(RowsOf(store.photos, 1)) = 3

CreateWrites == <<"createIssue", "insertItems", "insertPhotos">>

CreateSaves == {p \in 1..Len(procs) : procs[p].kind = "save" /\ procs[p].mode = "create"}

CreatedIssueIds == {procs[p].issueId : p \in CreateSaves} \ {0}

\* C13: a create-mode save inserts the issue row first, then the items, then
\* the photos, every row keyed by the id of the inserted issue; and when a
\* write after the issue insert has failed before the photos insert, the issue
\* row is left with no item and no photo.
C13_CreateWriteOrder ==
    /\ [](/\ \A p \in CreateSaves : IsPrefix(procs[p].writes, CreateWrites)
          /\ \A k \in 1..Len(store.items) :
                 store.items[k].issue_id \in InitialIssueIds \cup CreatedIssueIds
          /\ \A k \in 1..Len(store.photos) :
                 store.photos[k].issue_id \in InitialIssueIds \cup CreatedIssueIds)
    /\ [][\A p \in CreateSaves :
            (procs[p].pc = "insertPhotos" /\ procs[p].failed /\ WritesDone(p)')
                => /\ procs[p].issueId \in IssueIdsIn(store')
                   /\ RowsOf(store'.items, procs[p].issueId) = <<>>
                   /\ RowsOf(store'.photos, procs[p].issueId) = <<>>]_vars

\* ------------------------------------------------- delete-issue properties
DeleteIssueFlows == {p \in 1..Len(procs) : procs[p].kind = "deleteIssue"}

IssueIdsOf(rep) == {rep.report_issues[k].id : k \in 1..Len(rep.report_issues)}

\* C14: a confirmed handleDeleteIssue removes the issue from the in-memory
\* report at once, with the store unchanged and the store delete still awaited;
\* when the store delete fails the in-memory report is not touched but a
\* reload is started; and when that reload completes with the report, the
\* in-memory report is the one read from the store and holds the issue again
\* if the store still has it.
C14_OptimisticDeleteReconciled ==
    [][/\ (Len(procs') > Len(procs) /\ procs'[Len(procs')].kind = "deleteIssue") =>
              LET p == Len(procs')
              IN /\ procs'[p].issueId \notin IssueIdsOf(state'.report)
                 /\ store' = store
                 /\ procs'[p].pc = "deleteIssue"
       /\ \A p \in DeleteIssueFlows :
            /\ (procs[p].pc = "deleteIssue" /\ procs'[p].failed) =>
                   /\ state'.report = state.report
                   /\ state'.isLoading
                   /\ procs'[p].pc = "getReportById"
                   /\ procs'[p].alerted
            /\ (procs[p].pc = "loadResponse" /\ procs'[p].pc = "done" /\ procs[p].failed) =>
                   /\ state'.report = procs[p].data
                   /\ ~state'.isLoading
                   /\ (procs[p].data.present /\ procs[p].issueId \in IssueIdsIn(store)) =>
                          procs[p].issueId \in IssueIdsOf(state'.report)]_vars

\* the delete of an issue failed, the reload is over and the issue, still in
\* the store, is in the in-memory report again
C14_Witness ==
    \E p \in DeleteIssueFlows :
        /\ procs[p].failed /\ procs[p].pc = "done" /\ procs[p].outcome = "alert"
        /\ procs[p].issueId \in IssueIdsIn(store)
        /\ state.report.present
        /\ procs[p].issueId \in IssueIdsOf(state.report)

\* C15: when an upload throws, the draft takes the empty value into the slot
\* only if the slot still holds that upload's own preview URL, nothing else of
\* the draft changing; a slot that holds anything else (the preview or the URL
\* of a later upload, or the value of a reset or reopened form) is left as it
\* is, with the whole draft.
C15_FailureClearsOnlyOwnPreview ==
    [][\A n \in 1..Len(uploads) :
          (uploads[n].status = "pending" /\ uploads'[n].status = "rejected") =>
              IF Slot(state.currentIssue, uploads[n]) = blobUrl(n)
              THEN OnlySlotChanged(state.currentIssue, uploads[n], NoPhoto,
                                   state'.currentIssue)
              ELSE state'.currentIssue = state.currentIssue]_vars

\* the first of two uploads on one slot threw and the slot holds the URL of
\* the second
C15_Witness ==
    \E n, m \in 1..Len(uploads) :
        /\ n < m /\ SameSlot(n, m)
        /\ uploads[n].status = "rejected"
        /\ uploads[m].status = "resolved" /\ uploads[m].live
        /\ Slot(state.currentIssue, uploads[m]) = publicUrl(m)

\* ------------------------------------------- uploadPhoto and compressImage
\* One call of uploadPhoto(file), kept in `probe`: the position of the
\* compressImage call it starts, the qualities canvas.toBlob was called with,
\* how the race with the compression timer ended, and the file handed to the
\* storage upload.  Sizes are in KB; qualities in hundredths (0.72 is 72: the
\* comparisons of the loop are 0.06 and 0.02 away from the floor, far from
\* any rounding of the subtraction).
MaxDimension == 1400
TargetSizeKb == 900
InitialQuality == 72
QualityStep == 8
QualityFloor == 58

FileSizes == {0, 900, 901, 4000}
ImageDimensions == {<<2800, 1400>>, <<1000, 2000>>, <<1400, 1400>>, <<800, 600>>}
BlobSizes == {0, 300, 900, 901, 1500}

OriginalFile(size) == [name |-> "original", size |-> size]
JpegFile(size) == [name |-> "jpg", size |-> size]
NoFile == [name |-> "", size |-> 0]

\* the canvas size: the larger side is brought down to maxDimension
CanvasSize(width, height) ==
    IF width > height /\ width > MaxDimension
    THEN <<MaxDimension, (height * MaxDimension) \div width>>
    ELSE IF height >= width /\ height > MaxDimension
    THEN <<(width * MaxDimension) \div height, MaxDimension>>
    ELSE <<width, height>>

FileToUploadAnyFile(file, compressed) ==
    IF compressed # NoFile THEN compressed ELSE file

\* if (compressed && compressed.size > 0) fileToUpload = compressed
FileToUpload(file, compressed) ==
    IF compressed # NoFile /\ compressed.size > 0 THEN compressed ELSE file

\* while (blob.size > targetBytes && quality > 0.58)
EncodesAgain(blobSize, quality) == blobSize > TargetSizeKb /\ quality > QualityFloor

InitPhoto ==
    /\ state = InitialState
    /\ rendered = InitialState
    /\ uploads = <<>>
    /\ procs = <<Proc("load", "getReportById")>>
    /\ store = InitialStore
    /\ navigated = FALSE
    /\ event = "mount"
    /\ budget = [uploads |-> 0, edits |-> 0, flows |-> 0, faults |-> 0]
    /\ probe \in [file : {OriginalFile(s) : s \in FileSizes},
                  image : ImageDimensions,
                  user : BOOLEAN,
                  hasImage : BOOLEAN,
                  pc : {"called"},
                  canvas : {<<0, 0>>},
                  quality : {0},
                  encodes : {<<>>},
                  race : {"none"},
                  fileToUpload : {NoFile},
                  result : {""}]

PageUnchanged == UNCHANGED <<state, rendered, uploads, procs, store, navigated, event, budget>>

\* the race is settled and, in the same turn, the storage upload is called
RaceSettled(pr, how, compressed) ==
    [pr EXCEPT !.race = how, !.fileToUpload = FileToUpload(pr.file, compressed)]

\* compressImage resolved with a file: it wins the race if the race is open
CompressResolved(pr, compressed) ==
    IF pr.race = "pending"
    THEN [RaceSettled(pr, "compressed", compressed) EXCEPT !.pc = "resolved"]
    ELSE [pr EXCEPT !.pc = "resolved"]

\* compressImage rejected: the catch block of uploadPhoto, if the race is open
CompressRejected(pr) ==
    IF pr.race = "pending"
    THEN [RaceSettled(pr, "thrown", NoFile) EXCEPT !.pc = "rejected"]
    ELSE [pr EXCEPT !.pc = "rejected"]

\* uploadPhoto up to its first await: the user check, then compressImage up
\* to its first await, raced with the timer
CallUploadPhoto ==
    /\ probe.pc = "called"
    /\ probe' =
         IF ~probe.user THEN [probe EXCEPT !.pc = "skipped", !.result = "thrown"]
         ELSE LET raced == [probe EXCEPT !.race = "pending"]
              IN IF ~probe.hasImage \/ probe.file.size <= TargetSizeKb
                 THEN CompressResolved(raced, probe.file)
                 ELSE [raced EXCEPT !.pc = "loading"]
    /\ PageUnchanged

\* the image element fires onload or onerror; after onload the canvas is
\* drawn (or its context is missing) and toBlob is called with quality 0.72
ImageSettles ==
    /\ probe.pc = "loading"
    /\ \E loaded \in BOOLEAN, ctx \in BOOLEAN :
         probe' =
           IF loaded /\ ctx
           THEN [probe EXCEPT !.pc = "encoding",
                              !.canvas = CanvasSize(probe.image[1], probe.image[2]),
                              !.quality = InitialQuality,
                              !.encodes = <<InitialQuality>>]
           ELSE CompressRejected(probe)
    /\ PageUnchanged

\* canvas.toBlob calls back, with a blob or with null; the loop encodes again
\* or the file is returned
BlobReady ==
    /\ probe.pc = "encoding"
    /\ \E encoded \in BOOLEAN, size \in BlobSizes :
         probe' =
           IF ~encoded THEN CompressRejected(probe)
           ELSE IF EncodesAgain(size, probe.quality)
           THEN [probe EXCEPT !.quality = @ - QualityStep,
                              !.encodes = Append(@, probe.quality - QualityStep)]
           ELSE CompressResolved(probe, JpegFile(size))
    /\ PageUnchanged

\* the timer of the race fires before compressImage has settled
CompressionTimeout ==
    /\ probe.race = "pending"
    /\ probe' = RaceSettled(probe, "timeout", NoFile)
    /\ PageUnchanged

\* the storage upload settles: the public URL is returned, or the error thrown
StorageUploadSettles ==
    /\ probe.race \in {"compressed", "thrown", "timeout"}
    /\ probe.result = ""
    /\ \E ok \in BOOLEAN :
         probe' = [probe EXCEPT !.result = IF ok THEN "publicUrl" ELSE "thrown"]
    /\ PageUnchanged

NextPhoto ==
    \/ CallUploadPhoto
    \/ ImageSettles
    \/ BlobReady
    \/ CompressionTimeout
    \/ StorageUploadSettles

\* the timer fires if the race is still open
SpecPhoto == InitPhoto /\ [][NextPhoto]_vars /\ WF_vars(CompressionTimeout)

\* --------------------------------------------------- compression properties
\* C16: canvas.toBlob is called with quality 0.72 and at most once more with
\* 0.64, never with a quality under the floor of 0.58, whatever the sizes of
\* the encoded blobs.
C16_QualityNeverBelowFloor ==
    /\ IsPrefix(probe.encodes, <<InitialQuality, InitialQuality - QualityStep>>)
    /\ \A k \in 1..Len(probe.encodes) : probe.encodes[k] >= QualityFloor

UploadCalled == probe.fileToUpload # NoFile

\* C17: in uploadPhoto the file handed to the storage upload is the original
\* file whenever the timer won the race, compressImage threw, or the file it
\* returned is empty; the timer settles the race without anything of the
\* compression being awaited; and once the race is started the storage upload
\* is called.
C17_FallbackToOriginal ==
    /\ [](/\ UploadCalled <=> probe.race \in {"compressed", "thrown", "timeout"}
          /\ UploadCalled =>
               /\ probe.race \in {"thrown", "timeout"} => probe.fileToUpload = probe.file
               /\ probe.fileToUpload.size = 0 => probe.fileToUpload = probe.file
               /\ probe.fileToUpload # probe.file =>
                      /\ probe.pc = "resolved"
                      /\ probe.fileToUpload.name = "jpg")
    /\ [][(probe.race = "pending" /\ probe'.race = "timeout") =>
              /\ probe'.fileToUpload = probe.file
              /\ probe'.pc = probe.pc
              /\ probe'.encodes = probe.encodes]_vars
    /\ (probe.race = "pending") ~> UploadCalled

\* the timer won while toBlob was being awaited a second time: the original
\* file went to the storage upload
C17_Witness ==
    /\ probe.race = "timeout"
    /\ probe.pc = "encoding"
    /\ Len(probe.encodes) = 2
    /\ probe.fileToUpload = probe.file
    /\ probe.result = "publicUrl"

\* ------------------------------------------------------------ autoFetchMap
\* The hook values of the page that the map effect and handleSaveChanges use,
\* kept in `probe`: isFetchingMap, the mapFetchAttempted ref, whether the
\* in-memory report and the stored report have a map_photo_url, whether the
\* mosque has coordinates, the user, isSaving, and whether a dependency of the
\* effect has changed since it last ran.
MapState(coords, hasUrl) ==
    [mapFetchAttempted |-> FALSE, isFetchingMap |-> FALSE,
     map_photo_url |-> hasUrl, stored_map_photo_url |-> hasUrl,
     coords |-> coords, user |-> TRUE, effectDue |-> TRUE,
     pc |-> "idle", requests |-> 0,
     isSaving |-> FALSE, savePc |-> "idle"]

MapFetchSkippedWithoutRef(attempted, fetching, hasReport, hasUrl, coords) ==
    fetching \/ ~hasReport \/ hasUrl \/ ~coords

\* the two returns at the head of autoFetchMap
MapFetchSkipped(attempted, fetching, hasReport, hasUrl, coords) ==
    attempted \/ fetching \/ ~hasReport \/ hasUrl \/ ~coords

InitMap ==
    /\ state = EditDialog(Loaded, Loaded.report.report_issues[1])
    /\ rendered = state
    /\ uploads = <<>>
    /\ procs = <<LoadDone>>
    /\ store = InitialStore
    /\ navigated = FALSE
    /\ event = "other"
    /\ budget = [uploads |-> MapUploads, edits |-> 0, flows |-> MapOps, faults |-> 0]
    /\ probe \in {MapState(coords, hasUrl) : coords \in BOOLEAN, hasUrl \in BOOLEAN}

MapUnchanged == UNCHANGED <<state, rendered, uploads, procs, store, navigated, budget>>

\* the finally block of autoFetchMap
MapFetchOver(pr) == [pr EXCEPT !.isFetchingMap = FALSE, !.pc = "idle", !.effectDue = TRUE]

\* the effect runs after a render in which report, user or isFetchingMap
\* changed: autoFetchMap up to its first await
MapEffectRuns ==
    /\ ~navigated
    /\ probe.effectDue
    /\ probe' =
         IF MapFetchSkipped(probe.mapFetchAttempted, probe.isFetchingMap,
                            state.report.present, probe.map_photo_url, probe.coords)
         THEN [probe EXCEPT !.effectDue = FALSE]
         ELSE [probe EXCEPT !.isFetchingMap = TRUE, !.mapFetchAttempted = TRUE,
                            !.requests = @ + 1, !.pc = "fetch", !.effectDue = TRUE]
    /\ event' = "other"
    /\ MapUnchanged

\* the map-photo request settles: a url, an error answer, or a throw
MapFetchSettles ==
    /\ probe.pc = "fetch"
    /\ \E answer \in {"url", "failed", "thrown"} :
         probe' = IF answer = "url" THEN [probe EXCEPT !.pc = "updateReport"]
                  ELSE MapFetchOver(probe)
    /\ event' = "other"
    /\ MapUnchanged

\* reportService.updateReport settles; on success the in-memory report gets
\* the url through a functional setReport
MapUpdateReportSettles ==
    /\ probe.pc = "updateReport"
    /\ \E ok \in BOOLEAN :
         probe' = IF ok
                  THEN [MapFetchOver(probe) EXCEPT
                           !.stored_map_photo_url = TRUE,
                           !.map_photo_url = @ \/ state.report.present]
                  ELSE MapFetchOver(probe)
    /\ event' = "other"
    /\ MapUnchanged

\* a loadReport has replaced the in-memory report by the stored one
ReportReloaded ==
    /\ ~navigated
    /\ ~probe.effectDue \/ probe.map_photo_url # probe.stored_map_photo_url
    /\ probe' = [probe EXCEPT !.map_photo_url = probe.stored_map_photo_url,
                              !.effectDue = TRUE]
    /\ event' = "other"
    /\ MapUnchanged

\* the auth context gives another user object
UserChanges ==
    /\ ~navigated
    /\ ~probe.effectDue
    /\ probe' = [probe EXCEPT !.user = ~@, !.effectDue = TRUE]
    /\ event' = "other"
    /\ MapUnchanged

\* the checks at the head of handleSaveChanges
SaveChangesDecision(hasReport, saving) ==
    IF ~hasReport THEN "saveChanges:noReport"
    ELSE IF saving THEN "saveChanges:busy"
    ELSE "saveChanges:started"

\* handleSaveChanges up to its first await
handleSaveChanges ==
    /\ PageShown
    /\ LET decision == SaveChangesDecision(rendered.report.present, probe.isSaving)
       IN /\ event' = decision
          /\ probe' = IF decision = "saveChanges:started"
                      THEN [probe EXCEPT !.isSaving = TRUE, !.savePc = "updateMosque"]
                      ELSE probe
    /\ MapUnchanged

\* mosqueService.updateMosque, then reportService.updateReport, settle; the
\* finally block sets isSaving to false
SaveChangesSettles ==
    /\ probe.savePc # "idle"
    /\ \E ok \in BOOLEAN :
         probe' = IF ok /\ probe.savePc = "updateMosque"
                  THEN [probe EXCEPT !.savePc = "updateReport"]
                  ELSE [probe EXCEPT !.savePc = "idle", !.isSaving = FALSE]
    /\ event' = "other"
    /\ MapUnchanged

NextMap ==
    \/ MapEffectRuns
    \/ MapFetchSettles
    \/ MapUpdateReportSettles
    \/ ReportReloaded
    \/ UserChanges
    \/ handleSaveChanges
    \/ SaveChangesSettles
    \/ Render
    \/ CloseDialog
    \/ StartCase1Upload
    \/ UploadResolves
    \/ UploadRejects
    \/ handleSaveIssue
    \/ UpdateIssueSettles
    \/ DeleteItemsSettles
    \/ DeletePhotosSettles
    \/ InsertItemsSettles
    \/ InsertPhotosSettles
    \/ ReadReport
    \/ SaveLoadSettles

SpecMap == InitMap /\ [][NextMap]_vars


\* ------------------------------------------------------------------- C18
MapStep == probe'.pc # probe.pc \/ probe'.requests # probe.requests

\* C18: on one page load at most one map-photo request is sent, however often
\* the effect runs again (report reloaded, user changed, isFetchingMap
\* toggled, first attempt succeeded or failed); a step of autoFetchMap leaves
\* pendingUploads, the uploads in flight and the issue-save state as they
\* were; and a pressed save (handleSaveChanges, handleSaveIssue) is turned
\* away only by its own checks, never because a map fetch is in flight.
C18_MapFetchedAtMostOnce ==
    /\ [](probe.requests <= 1)
    /\ [][MapStep => /\ state' = state
                     /\ rendered' = rendered
                     /\ uploads' = uploads
                     /\ procs' = procs]_vars
    /\ [][/\ event' = "saveChanges:busy" => probe.isSaving
          /\ event' = "saveChanges:noReport" => ~rendered.report.present
          /\ event' = "save:busy" => rendered.isSavingIssue
          /\ event' = "save:pending" => rendered.pendingUploads > 0
          /\ event' = "save:invalid" => ~validateIssue(rendered.currentIssue)]_vars

\* the first attempt has failed, the effect has run again without sending a
\* second request, and an upload is in flight
C18_Witness ==
    /\ probe.requests = 1
    /\ probe.mapFetchAttempted
    /\ ~probe.isFetchingMap
    /\ ~probe.map_photo_url
    /\ ~probe.effectDue
    /\ state.pendingUploads > 0


\* ------------------------------------------------------------ AuthProvider
SESSION_TIMEOUT_MS == 4000
SIGN_OUT_TIMEOUT_MS == 1500
LOGIN_TIMEOUT_MS == 7000

NoUser == "null"
SessionUser == "u1"      \* the user of the stored session, when there is one
LoginUser == "u2"        \* the user whose email and password login is given

\* One run of initAuth, login or logout.
\* pc is the await it stands at; why tells which way it ended.
AuthProc(fn, pc, u) == [fn |-> fn, pc |-> pc, u |-> u, result |-> "none", why |-> ""]

\* A network call in flight, made by the run at index proc.
NetCall(op, proc) == [op |-> op, proc |-> proc]

\* The timer raced against the call the run awaits; 0 when the await is
\* not raced.
TimerMs(p) ==
    CASE p.fn = "initAuth" /\ p.pc = "getSession" -> SESSION_TIMEOUT_MS
      [] p.fn = "initAuth" /\ p.pc = "signOut" -> SIGN_OUT_TIMEOUT_MS
      [] p.fn = "login" /\ p.pc = "signIn" -> LOGIN_TIMEOUT_MS
      [] OTHER -> 0

\* What the race of initAuth yields: the answer of getSession, or, after a
\* rejection or the timer, the empty session with the error
SessionResult(answer) ==
    CASE answer = "session" -> [user |-> SessionUser, error |-> FALSE]
      [] answer = "empty" -> [user |-> NoUser, error |-> FALSE]
      [] OTHER -> [user |-> NoUser, error |-> TRUE]

SessionFailedNever(sessionResult) == FALSE

\* if (sessionResult.error)
SessionFailed(sessionResult) == sessionResult.error

\* What the race of login yields: the answer of signIn, or the timer's value
SignInResult(answer, u) ==
    CASE answer = "user" -> [user |-> u, error |-> FALSE]
      [] answer = "nothing" -> [user |-> NoUser, error |-> FALSE]
      [] OTHER -> [user |-> NoUser, error |-> TRUE]

InitAuth ==
    /\ state = InitialState
    /\ rendered = InitialState
    /\ uploads = <<>>
    /\ procs = <<Proc("load", "getReportById")>>
    /\ store = InitialStore
    /\ navigated = FALSE
    /\ event = "mount"
    /\ budget = [uploads |-> 0, edits |-> 0, flows |-> 0, faults |-> 0]
    /\ probe = [user |-> NoUser, isLoading |-> TRUE,
                runs |-> <<AuthProc("initAuth", "getSession", NoUser)>>,
                flying |-> {NetCall("getSession", 1)},
                events |-> <<>>,
                callbacks |-> <<>>,
                logins |-> 0, logouts |-> 0]

\* run i ends
Ended(pr, i, result, why) ==
    [pr EXCEPT !.runs[i].pc = "done", !.runs[i].result = result, !.runs[i].why = why]

\* initAuth: await safeSignOut(), whose race starts supabase.auth.signOut
StartSafeSignOut(pr, i, why) ==
    [pr EXCEPT !.runs[i].pc = "signOut", !.runs[i].why = why,
               !.flying = @ \cup {NetCall("signOut", i)}]

\* initAuth after the race on getSession
AfterSession(pr, i, sessionResult, why) ==
    IF SessionFailed(sessionResult) THEN StartSafeSignOut(pr, i, why)
    ELSE IF sessionResult.user # NoUser
         THEN [pr EXCEPT !.user = sessionResult.user,
                         !.runs[i].pc = "role", !.runs[i].u = sessionResult.user]
         ELSE [pr EXCEPT !.runs[i].pc = "getCurrentUser",
                         !.flying = @ \cup {NetCall("getCurrentUser", i)}]

\* login after its race
AfterSignIn(pr, i, signInResult, why) ==
    IF signInResult.error THEN Ended(pr, i, "false", why)
    ELSE IF signInResult.user # NoUser THEN [pr EXCEPT !.runs[i].pc = "role"]
    ELSE Ended(pr, i, "false", "nothing")

\* setUser(null); the finally block of initAuth
InitAuthCleared(pr, i) ==
    [Ended(pr, i, "none", pr.runs[i].why) EXCEPT !.user = NoUser, !.isLoading = FALSE]

\* supabase.auth.getSession settles
SessionSettles ==
    \E i \in DOMAIN probe.runs, answer \in {"session", "empty", "error", "rejected"} :
      /\ NetCall("getSession", i) \in probe.flying
      /\ LET landed == [probe EXCEPT !.flying = @ \ {NetCall("getSession", i)}]
         IN probe' = IF probe.runs[i].pc = "getSession"
                     THEN AfterSession(landed, i, SessionResult(answer), answer)
                     ELSE landed
      /\ PageUnchanged

\* authService.getCurrentUser settles
CurrentUserSettles ==
    \E i \in DOMAIN probe.runs, answer \in {"user", "null", "rejected"} :
      /\ NetCall("getCurrentUser", i) \in probe.flying
      /\ LET landed == [probe EXCEPT !.flying = @ \ {NetCall("getCurrentUser", i)}]
         IN probe' = IF answer = "user"
                     THEN [landed EXCEPT !.runs[i].pc = "role2", !.runs[i].u = SessionUser]
                     ELSE StartSafeSignOut(landed, i, answer)
      /\ PageUnchanged

\* initAuth after getUserRoleFromProfile: the last setUser and the finally block
InitAuthRole ==
    \E i \in DOMAIN probe.runs :
      /\ probe.runs[i].fn = "initAuth"
      /\ probe.runs[i].pc \in {"role", "role2"}
      /\ probe' = [Ended(probe, i, "none", "user") EXCEPT
                      !.user = IF probe.runs[i].pc = "role2" THEN probe.runs[i].u ELSE @,
                      !.isLoading = FALSE]
      /\ PageUnchanged

\* supabase.auth.signOut of safeSignOut settles; a sign-out that succeeded
\* is announced to the listener
SafeSignOutSettles ==
    \E i \in DOMAIN probe.runs, ok \in BOOLEAN :
      /\ NetCall("signOut", i) \in probe.flying
      /\ LET landed == [probe EXCEPT !.flying = @ \ {NetCall("signOut", i)},
                                     !.events = IF ok THEN Append(@, <<"SIGNED_OUT", NoUser>>) ELSE @]
         IN probe' = IF probe.runs[i].pc = "signOut" THEN InitAuthCleared(landed, i) ELSE landed
      /\ PageUnchanged

\* the timer of a race fires before the call has settled
Timeout ==
    \E i \in DOMAIN probe.runs :
      /\ TimerMs(probe.runs[i]) > 0
      /\ probe' =
           CASE probe.runs[i].pc = "getSession" ->
                  AfterSession(probe, i, SessionResult("timeout"), "timeout")
             [] probe.runs[i].pc = "signIn" ->
                  AfterSignIn(probe, i, SignInResult("timeout", probe.runs[i].u), "timeout")
             [] OTHER -> InitAuthCleared(probe, i)
      /\ PageUnchanged

\* login(email, password) up to its race
login ==
    /\ probe.logins < MaxLogins
    /\ LET i == Len(probe.runs) + 1
       IN probe' = [probe EXCEPT !.runs = Append(@, AuthProc("login", "signIn", LoginUser)),
                                 !.flying = @ \cup {NetCall("signIn", i)},
                                 !.logins = @ + 1]
    /\ PageUnchanged

\* authService.signIn settles; a sign-in that succeeded is announced to the
\* listener, whether or not login still waits for it
SignInSettles ==
    \E i \in DOMAIN probe.runs, answer \in {"user", "nothing", "error", "rejected"} :
      /\ NetCall("signIn", i) \in probe.flying
      /\ LET u == probe.runs[i].u
             landed == [probe EXCEPT !.flying = @ \ {NetCall("signIn", i)},
                                     !.events = IF answer = "user"
                                                THEN Append(@, <<"SIGNED_IN", u>>) ELSE @]
         IN probe' = IF probe.runs[i].pc = "signIn"
                     THEN AfterSignIn(landed, i, SignInResult(answer, u), answer)
                     ELSE landed
      /\ PageUnchanged

\* login after getUserRoleFromProfile: setUser and return true
LoginRole ==
    \E i \in DOMAIN probe.runs :
      /\ probe.runs[i].fn = "login"
      /\ probe.runs[i].pc = "role"
      /\ probe' = [Ended(probe, i, "true", "user") EXCEPT !.user = probe.runs[i].u]
      /\ PageUnchanged

\* logout() up to its await
logout ==
    /\ probe.logouts < MaxLogouts
    /\ LET i == Len(probe.runs) + 1
       IN probe' = [probe EXCEPT !.runs = Append(@, AuthProc("logout", "authSignOut", NoUser)),
                                 !.flying = @ \cup {NetCall("authSignOut", i)},
                                 !.logouts = @ + 1]
    /\ PageUnchanged

\* authService.signOut of logout settles: setUser(null) after it resolved,
\* the catch block after it rejected
LogoutSettles ==
    \E i \in DOMAIN probe.runs, ok \in BOOLEAN :
      /\ NetCall("authSignOut", i) \in probe.flying
      /\ LET landed == [probe EXCEPT !.flying = @ \ {NetCall("authSignOut", i)},
                                     !.events = IF ok THEN Append(@, <<"SIGNED_OUT", NoUser>>) ELSE @]
         IN probe' = IF ok THEN [Ended(landed, i, "none", "signedOut") EXCEPT !.user = NoUser]
                     ELSE Ended(landed, i, "none", "rejected")
      /\ PageUnchanged

\* the listener's callback is called with the oldest announced event; after
\* SIGNED_IN it awaits getUserRoleFromProfile
AuthListener ==
    /\ probe.events # <<>>
    /\ LET e == Head(probe.events)
           rest == [probe EXCEPT !.events = Tail(@)]
       IN probe' = IF e[1] = "SIGNED_IN"
                   THEN [rest EXCEPT !.callbacks = Append(@, e[2])]
                   ELSE [rest EXCEPT !.user = NoUser]
    /\ PageUnchanged

\* the callback after getUserRoleFromProfile: setUser
ListenerRole ==
    /\ probe.callbacks # <<>>
    /\ probe' = [probe EXCEPT !.user = Head(probe.callbacks), !.callbacks = Tail(@)]
    /\ PageUnchanged

NextAuth ==
    \/ SessionSettles
    \/ CurrentUserSettles
    \/ InitAuthRole
    \/ SafeSignOutSettles
    \/ Timeout
    \/ login
    \/ SignInSettles
    \/ LoginRole
    \/ logout
    \/ LogoutSettles
    \/ AuthListener
    \/ ListenerRole

\* Timers fire and the steps that wait for no network go on; a network call
\* may stay unanswered for ever.
AuthFairness ==
    /\ WF_vars(Timeout)
    /\ WF_vars(InitAuthRole)
    /\ WF_vars(LoginRole)
    /\ WF_vars(AuthListener)
    /\ WF_vars(ListenerRole)

SpecAuth == InitAuth /\ [][NextAuth]_vars /\ AuthFairness


\* ------------------------------------------------------------------- C19
\* run i stood at the race on call op, and the race is over while the call
\* is still in flight: the timer settled it
TimerWon(i, op) ==
    /\ probe.runs[i].pc = op
    /\ probe'.runs[i].pc # op
    /\ NetCall(op, i) \in probe'.flying

RunEnds(i) == probe.runs[i].pc # "done" /\ probe'.runs[i].pc = "done"

\* C19: when the timer of a race settles first the outcome is the failure
\* outcome and nothing is retried. A session fetch that timed out starts no
\* network call but the sign-out of safeSignOut, and initAuth then ends with
\* user = null and isLoading = false; a login whose timer fired first returns
\* false at once, starts no call and leaves the user as it was.
C19_TimeoutIsFailure ==
    [][\A i \in DOMAIN probe.runs :
         /\ TimerWon(i, "getSession")
              => /\ probe'.flying \ probe.flying = {NetCall("signOut", i)}
                 /\ probe'.runs[i].why = "timeout"
                 /\ probe'.user = probe.user
         /\ (probe.runs[i].fn = "initAuth" /\ probe.runs[i].why = "timeout" /\ RunEnds(i))
              => /\ probe.runs[i].pc = "signOut"
                 /\ probe'.user = NoUser
                 /\ ~probe'.isLoading
                 /\ probe'.flying \subseteq probe.flying
         /\ TimerWon(i, "signIn")
              => /\ RunEnds(i)
                 /\ probe'.runs[i].result = "false"
                 /\ probe'.user = probe.user
                 /\ probe'.flying = probe.flying]_vars

\* initAuth has ended after its session fetch timed out, a login has returned
\* false on its timer, and both calls are still unanswered
C19_Witness ==
    /\ \E i \in DOMAIN probe.runs :
         /\ probe.runs[i].fn = "initAuth" /\ probe.runs[i].pc = "done"
         /\ probe.runs[i].why = "timeout"
         /\ NetCall("getSession", i) \in probe.flying
    /\ \E i \in DOMAIN probe.runs :
         /\ probe.runs[i].fn = "login" /\ probe.runs[i].pc = "done"
         /\ probe.runs[i].why = "timeout" /\ probe.runs[i].result = "false"
         /\ NetCall("signIn", i) \in probe.flying
    /\ probe.user = NoUser
    /\ ~probe.isLoading

\* ------------------------------------------------------------------- C20
SignOutCalls == {"signOut", "authSignOut"}

LogoutCalled == \E i \in DOMAIN probe.runs : probe.runs[i].fn = "logout"

LogoutReturned ==
    \A i \in DOMAIN probe.runs : probe.runs[i].fn = "logout" => probe.runs[i].pc = "done"

\* C20: every run that awaits a sign-out call awaits it in a race with a
\* timer, the run of logout included; and once logout is called it returns
\* with user = null, even when the sign-out call is never answered.
C20_LogoutAlwaysCompletes ==
    /\ [](\A i \in DOMAIN probe.runs :
            probe.runs[i].pc \in SignOutCalls => TimerMs(probe.runs[i]) > 0)
    /\ LogoutCalled ~> (LogoutReturned /\ probe.user = NoUser)


\* ---------------------------------------------------- /api/map-photo handler
\* A value of the request body: its typeof and, for strings and numbers, its
\* characters. A number without characters is NaN.
JsValue(type, text) == [type |-> type, text |-> text]
JsUndefined == JsValue("undefined", <<>>)
JsString(text) == JsValue("string", text)
JsNumber(text) == JsValue("number", text)
Digits == {"2", "4"}

RECURSIVE DigitPrefix(_)
DigitPrefix(text) ==
    IF text = <<>> \/ Head(text) \notin Digits THEN <<>>
    ELSE <<Head(text)>> \o DigitPrefix(Tail(text))

\* parseFloat: the number read from the longest numeric prefix, NaN without one
parseFloat(v) == JsNumber(DigitPrefix(v.text))

\* typeof lat === "string" ? parseFloat(lat) : lat
CoordinateNumber(v) == IF v.type = "string" THEN parseFloat(v) ELSE v

IsNaN(v) == v.type = "number" /\ v.text = <<>>

JsFalsy(v) ==
    \/ v.type = "undefined"
    \/ v.type = "string" /\ v.text = <<>>
    \/ IsNaN(v)

\* targetId || reportId
ResolvedId(req) == IF JsFalsy(req.targetId) THEN req.reportId ELSE req.targetId

\* the type named by the request, else "report" with a reportId, else "mosque"
ResolvedType(req) ==
    IF req.targetType.type = "string" /\ Len(req.targetType.text) > 0 THEN req.targetType.text
    ELSE IF ~JsFalsy(req.reportId) THEN <<"report">>
    ELSE <<"mosque">>

SafeChars == {"m", "report", "mosque", "2", "4"}

\* resolvedType.replace(/[^a-zA-Z0-9_-]/g, "") || "map"
SafeType(type) ==
    LET kept == SelectSeq(type, LAMBDA c : c \in SafeChars)
    IN IF kept = <<>> THEN <<"map">> ELSE kept

MapPhotoPath(req) == <<"map-photos/">> \o SafeType(ResolvedType(req)) \o <<"-">>
                        \o ResolvedId(req).text \o <<".jpg">>

BadMapRequestWithoutId(req) ==
    LET latNum == CoordinateNumber(req.lat)
        lngNum == CoordinateNumber(req.lng)
    IN \/ latNum.type # "number"
       \/ lngNum.type # "number"
       \/ IsNaN(latNum)
       \/ IsNaN(lngNum)

\* the test before the 400 answer
BadMapRequest(req) ==
    LET latNum == CoordinateNumber(req.lat)
        lngNum == CoordinateNumber(req.lng)
    IN \/ latNum.type # "number"
       \/ lngNum.type # "number"
       \/ JsFalsy(ResolvedId(req))
       \/ IsNaN(latNum)
       \/ IsNaN(lngNum)

CoordinateInputs ==
    {JsUndefined, JsValue("boolean", <<>>), JsNumber(<<"2", "4">>),
     JsString(<<>>), JsString(<<"2", "4">>), JsString(<<"2", "a">>), JsString(<<"a", "2">>)}
IdInputs(id) == {JsUndefined, JsString(<<>>), JsString(<<id>>)}
TypeInputs == {JsUndefined, JsString(<<>>), JsString(<<"m">>), JsString(<<"m", "/">>), JsString(<<"/">>)}

MapRequests ==
    [method : {"GET", "POST"}, apiKey : BOOLEAN,
     lat : CoordinateInputs, lng : {JsUndefined, JsNumber(<<"4", "2">>), JsString(<<"4", "a">>)},
     targetId : IdInputs("t1"), reportId : IdInputs("r1"), targetType : TypeInputs]

NoAnswer == [status |-> 0, url |-> FALSE, path |-> <<>>]
ErrorAnswer(status) == [status |-> status, url |-> FALSE, path |-> <<>>]

InitEndpoint ==
    /\ state = InitialState
    /\ rendered = InitialState
    /\ uploads = <<>>
    /\ procs = <<Proc("load", "getReportById")>>
    /\ store = InitialStore
    /\ navigated = FALSE
    /\ event = "mount"
    /\ budget = [uploads |-> 0, edits |-> 0, flows |-> 0, faults |-> 0]
    /\ \E req \in MapRequests :
         probe = [req |-> req, pc |-> "called", answer |-> NoAnswer,
                  providerOk |-> FALSE, providerCalls |-> 0, storageCalls |-> 0,
                  uploaded |-> <<>>]

Answered(pr, answer) == [pr EXCEPT !.pc = "answered", !.answer = answer]

\* handler up to its first await
MapPhotoHandler ==
    /\ probe.pc = "called"
    /\ probe' =
         IF probe.req.method # "POST" THEN Answered(probe, ErrorAnswer(405))
         ELSE IF ~probe.req.apiKey THEN Answered(probe, ErrorAnswer(500))
         ELSE IF BadMapRequest(probe.req) THEN Answered(probe, ErrorAnswer(400))
         ELSE [probe EXCEPT !.pc = "fetch", !.providerCalls = @ + 1]
    /\ PageUnchanged

\* fetch(mapUrl) settles
MapProviderSettles ==
    /\ probe.pc = "fetch"
    /\ \E outcome \in {"ok", "notOk", "thrown"} :
         probe' = IF outcome = "thrown" THEN Answered(probe, ErrorAnswer(500))
                  ELSE [probe EXCEPT !.pc = "body", !.providerOk = (outcome = "ok")]
    /\ PageUnchanged

\* mapResponse.text() of a failed response, or arrayBuffer() of a good one,
\* settles; after the latter the storage upload starts
MapBodySettles ==
    /\ probe.pc = "body"
    /\ \E read \in BOOLEAN :
         probe' = IF ~read THEN Answered(probe, ErrorAnswer(500))
                  ELSE IF ~probe.providerOk THEN Answered(probe, ErrorAnswer(502))
                  ELSE [probe EXCEPT !.pc = "upload", !.storageCalls = @ + 1,
                                     !.uploaded = MapPhotoPath(probe.req)]
    /\ PageUnchanged

\* supabase.storage upload settles
MapStorageSettles ==
    /\ probe.pc = "upload"
    /\ \E outcome \in {"ok", "error", "thrown"} :
         probe' = IF outcome = "ok"
                  THEN Answered(probe, [status |-> 200, url |-> TRUE, path |-> MapPhotoPath(probe.req)])
                  ELSE Answered(probe, ErrorAnswer(500))
    /\ PageUnchanged

NextEndpoint ==
    \/ MapPhotoHandler
    \/ MapProviderSettles
    \/ MapBodySettles
    \/ MapStorageSettles

SpecEndpoint == InitEndpoint /\ [][NextEndpoint]_vars

\* ------------------------------------------------------------------- C21
\* a coordinate is numeric when it is a number other than NaN or a string of
\* digits
NumericCoordinate(v) ==
    /\ v.type \in {"number", "string"}
    /\ v.text # <<>>
    /\ \A k \in DOMAIN v.text : v.text[k] \in Digits

\* C21: the endpoint answers by failure stage and does nothing past it: 405
\* for a method other than POST, with no provider and no storage call; 400
\* for non-numeric coordinates or a missing identifier, with no provider
\* fetch; 502 after a provider response that is not 2xx, with no storage
\* upload; 500 after a storage upload error; and 200 with {url, path}, path
\* being map-photos/{sanitizedType}-{id}.jpg, only when every stage succeeded.
C21_AnswerByFailureStage ==
    LET req == probe.req
        bad == ~NumericCoordinate(req.lat) \/ ~NumericCoordinate(req.lng) \/ JsFalsy(ResolvedId(req))
    IN /\ req.method # "POST"
            => /\ probe.providerCalls = 0 /\ probe.storageCalls = 0
               /\ probe.pc = "answered" => probe.answer.status = 405
       /\ (req.method = "POST" /\ bad)
            => /\ probe.providerCalls = 0 /\ probe.storageCalls = 0
               /\ probe.pc = "answered" => probe.answer.status = 400
       /\ (probe.pc = "answered" /\ probe.providerCalls = 1 /\ ~probe.providerOk /\ probe.answer.status # 500)
            => probe.answer.status = 502 /\ probe.storageCalls = 0
       /\ (probe.pc = "answered" /\ probe.storageCalls = 1 /\ probe.answer.status # 200)
            => probe.answer.status = 500
       /\ probe.answer.status = 200
            => /\ probe.providerOk /\ probe.storageCalls = 1
               /\ probe.answer.url
               /\ probe.answer.path = probe.uploaded
               /\ probe.answer.path = MapPhotoPath(req)


\* a coordinate the endpoint reads a number from: a number other than NaN,
\* or a string that begins with a digit
ReadableCoordinate(v) ==
    /\ v.type \in {"number", "string"}
    /\ v.text # <<>>
    /\ Head(v.text) \in Digits

\* C21, amended: with the provider key configured the endpoint answers by
\* failure stage and does nothing past it: 405 for a method other than POST
\* (whether or not the key is configured); 500 for a POST without the key,
\* before the body is looked at; 400 for a coordinate that is neither a number
\* nor a string beginning with a number, or for a missing identifier, with no
\* provider fetch; 502 after a provider response that is not 2xx and whose
\* body could be read, with no storage upload; 500 after a storage upload
\* error or any exception; 200 with {url, path}, path being
\* map-photos/{sanitizedType}-{id}.jpg, only when every stage succeeded.
C21_AnswerByStageWithKey ==
    LET req == probe.req
        bad == ~ReadableCoordinate(req.lat) \/ ~ReadableCoordinate(req.lng) \/ JsFalsy(ResolvedId(req))
        answered == probe.pc = "answered"
    IN /\ req.method # "POST"
            => /\ probe.providerCalls = 0 /\ probe.storageCalls = 0
               /\ answered => probe.answer.status = 405
       /\ (req.method = "POST" /\ ~req.apiKey)
            => /\ probe.providerCalls = 0 /\ probe.storageCalls = 0
               /\ answered => probe.answer.status = 500
       /\ (req.method = "POST" /\ req.apiKey /\ bad)
            => /\ probe.providerCalls = 0 /\ probe.storageCalls = 0
               /\ answered => probe.answer.status = 400
       /\ (req.method = "POST" /\ req.apiKey /\ ~bad /\ probe.pc # "called")
            => probe.providerCalls = 1
       /\ (answered /\ probe.providerCalls = 1 /\ ~probe.providerOk)
            => probe.answer.status \in {500, 502} /\ probe.storageCalls = 0
       /\ (answered /\ probe.storageCalls = 1 /\ probe.answer.status # 200)
            => probe.answer.status = 500
       /\ probe.answer.status = 502 => probe.providerCalls = 1 /\ ~probe.providerOk
       /\ probe.answer.status = 200
            => /\ probe.providerOk /\ probe.storageCalls = 1
               /\ probe.answer.url
               /\ probe.answer.path = probe.uploaded
               /\ probe.answer.path = <<"map-photos/">> \o SafeType(ResolvedType(req))
                                        \o <<"-">> \o ResolvedId(req).text \o <<".jpg">>

\* every stage succeeded for a request whose type had a character removed
C21_Witness ==
    /\ probe.pc = "answered"
    /\ probe.answer.status = 200
    /\ probe.req.targetType = JsString(<<"m", "/">>)
    /\ probe.answer.path = <<"map-photos/", "m", "-", "t1", ".jpg">>


\* ------------------------------------------------- openEditIssueDialog alone
\* persisted issues of every type, with 0 to MaxEntries items and 0 to
\* MaxPhotos photos
StoredItemInputs ==
    {ItemRow(1, "s1", qty, price) : qty \in {0, 2}, price \in {NullPrice, 70}}

StoredPhotos(n) == [k \in 1..n |-> PhotoRow(1, storedUrl(k))]

StoredIssueInputs ==
    {[id |-> 1, issue_type |-> type, main_item_id |-> "m1", notes |-> "",
      issue_items |-> items, issue_photos |-> StoredPhotos(n)] :
        type \in {"single", "multiple", "other"},
        items \in SeqsUpTo(StoredItemInputs, MaxEntries),
        n \in 0..MaxPhotos}

InitHydrate ==
    /\ \E issue \in StoredIssueInputs :
         state = LoadSettled(InitialState, [present |-> TRUE, mosques |-> StoredMosque,
                                            report_issues |-> <<issue>>])
    /\ rendered = state
    /\ uploads = <<>>
    /\ procs = <<LoadDone>>
    /\ store = InitialStore
    /\ navigated = FALSE
    /\ event = "other"
    /\ budget = [uploads |-> 0, edits |-> 0, flows |-> 0, faults |-> 0]
    /\ probe = NoProbe

NextHydrate == openEditIssueDialog

SpecHydrate == InitHydrate /\ [][NextHydrate]_vars

\* ------------------------------------------------------------------- C22
\* the entry hydrated from position k (from 1) of the items and the photos
PlacedFrom(entry, photo, items, photos, k) ==
    /\ IF k <= Len(items)
       THEN /\ entry.sub_item_id = items[k].sub_item_id
            /\ entry.quantity = (IF items[k].quantity = 0 THEN 1 ELSE items[k].quantity)
            /\ items[k].unit_price # NullPrice => entry.unit_price = items[k].unit_price
       ELSE entry.sub_item_id = "" /\ entry.quantity = 1 /\ entry.unit_price = 0
    /\ photo = (IF k <= Len(photos) THEN photos[k].photo_url ELSE NoPhoto)

\* C22: openEditIssueDialog hydrates the draft from a persisted issue:
\* issue_type single gives case1 and any other value case2; items and photos
\* go by position 0, 1, 2 into the sub-structure of that variant, a missing
\* position getting quantity 1, price 0 and an empty sub-item id or photo; the
\* sub-structure of the other variant is the empty template, and
\* editingIssueId is the issue's id.
C22_EditHydration ==
    (state.isIssueDialogOpen /\ state.issueDialogMode = "edit") =>
      LET issue == state.report.report_issues[1]
          form == state.currentIssue
          items == issue.issue_items
          photos == issue.issue_photos
      IN /\ form.caseType = (IF issue.issue_type = "single" THEN "case1" ELSE "case2")
         /\ form.main_item_id = issue.main_item_id
         /\ state.editingIssueId = issue.id
         /\ form.caseType = "case1" =>
              /\ Len(form.case1Data.photos) = 3
              /\ PlacedFrom(form.case1Data, form.case1Data.photos[1], items, photos, 1)
              /\ \A k \in 2..3 :
                   form.case1Data.photos[k] = (IF k <= Len(photos) THEN photos[k].photo_url ELSE NoPhoto)
              /\ form.case2Data = EmptyCase2
         /\ form.caseType = "case2" =>
              /\ Len(form.case2Data.items) = 3
              /\ \A k \in 1..3 :
                   PlacedFrom(form.case2Data.items[k], form.case2Data.items[k].photo, items, photos, k)
              /\ form.case1Data = EmptyCase1

\* an issue of a type other than single with one item and two photos is open
\* for editing: position 3 holds the placeholder entry
C22_Witness ==
    /\ state.isIssueDialogOpen /\ state.issueDialogMode = "edit"
    /\ state.report.report_issues[1].issue_type = "other"
    /\ Len(state.report.report_issues[1].issue_items) = 1
    /\ Len(state.report.report_issues[1].issue_photos) = 2
    /\ state.currentIssue.caseType = "case2"
    /\ state.currentIssue.case2Data.items[2].photo = storedUrl(2)
    /\ state.currentIssue.case2Data.items[3] = EmptyItem


\* ------------------------------------- the draft edited, uploaded and saved
NextDraftSave ==
    \/ NextGate
    \/ SetNotes

SpecDraftSave == InitGate /\ [][NextDraftSave]_vars

\* ------------------------------------------------------------------- C23
IsPreview(url) == url[1] = "blob"

\* C23: no photo row written by handleSaveIssue carries a temporary local
\* preview reference: every photo_url in the store is a remote URL given by a
\* successful upload, one that was in the store at page load, or empty.
C23_NoPreviewPersisted ==
    \A k \in DOMAIN store.photos : ~IsPreview(store.photos[k].photo_url)


\* ------------------------------------------------------------------- C24
AllSettled == \A p \in DOMAIN procs : procs[p].pc = "done"

\* every flow started ends with a loadReport (no delete of the report)
OnlyReloadingFlows ==
    \A p \in DOMAIN procs : procs[p].kind \in {"load", "save", "deleteIssue"}

\* C24: once every flow has settled, with the report on screen (the last load
\* succeeded), the in-memory report equals the stored report: a response of an
\* earlier loadReport that arrives late never replaces the data of a later one.
C24_SettledReportIsStored ==
    (AllSettled /\ OnlyReloadingFlows /\ store.report /\ state.report.present)
        => state.report = getReportById(store)


\* ------------------------------------------------------------------- C25
\* a handleDeleteReport flow has ended with its toast and none of its store
\* calls gave an error
ReportDeleted ==
    \E p \in DOMAIN procs :
        /\ procs[p].kind = "deleteReport"
        /\ procs[p].pc = "done"
        /\ procs[p].outcome = "toast"
        /\ ~procs[p].failed

\* C25: when handleDeleteReport has succeeded and every flow has settled, no
\* issue, item or photo of the report remains in the store, also when the
\* issues in memory differed from the stored ones at the time of the delete.
C25_NoDescendantLeft ==
    (ReportDeleted /\ AllSettled)
        => store.issues = <<>> /\ store.items = <<>> /\ store.photos = <<>>


\* ------------------------------------------------------------------- C26
SaveFlows == {p \in DOMAIN procs : procs[p].kind = "save"}

NextReopen ==
    \/ Render
    \/ ReadReport
    \/ InitialLoadSettles
    \/ openAddIssueDialog
    \/ openEditIssueDialog
    \/ CloseDialog
    \/ StartCase1Upload
    \/ StartCase2Upload
    \/ UploadResolves
    \/ UploadRejects

SpecReopen == InitUpload /\ [][NextReopen]_vars

\* ------------------------------------------------------------------- C27
\* upload n settles in this step
UploadSettles(n) == uploads[n].status = "pending" /\ uploads'[n].status # "pending"

\* C27: an upload started in one session of the issue dialog never changes
\* the draft of a later session: when an upload settles (resolved or threw)
\* after its draft was replaced by openAddIssueDialog or openEditIssueDialog,
\* the draft is left exactly as it was; until then pendingUploads counts the
\* upload, and the settling takes it off the count.
C27_OldUploadLeavesNewDraft ==
    /\ [](state.pendingUploads >= Cardinality({n \in InFlight : ~uploads[n].live}))
    /\ [][\A n \in 1..Len(uploads) :
             (UploadSettles(n) /\ ~uploads[n].live) =>
                 /\ state'.currentIssue = state.currentIssue
                 /\ state'.editingIssueId = state.editingIssueId
                 /\ state'.pendingUploads = state.pendingUploads - 1]_vars


\* the edit dialog was opened while an upload of the add dialog was in
\* flight; that upload has resolved and the hydrated draft is as it was
C27_Witness ==
    /\ state.isIssueDialogOpen /\ state.issueDialogMode = "edit"
    /\ \E n \in 1..Len(uploads) : uploads[n].status = "resolved" /\ ~uploads[n].live
    /\ \E k \in 1..Len(state.report.report_issues) :
         /\ state.report.report_issues[k].id = state.editingIssueId
         /\ state.currentIssue = HydratedForm(state.report.report_issues[k])
    /\ state.pendingUploads = 0


\* ------------------------------------------------------------------- C28
LoginRuns == {i \in DOMAIN probe.runs : probe.runs[i].fn = "login"}

\* C28: after login has returned false on its timer, and as long as no login
\* call has returned true, the user login asked for is not the signed-in
\* user: a sign-in that is answered after the timer authenticates nobody,
\* neither through login nor through the auth listener.
C28_LateSignInIgnored ==
    (/\ \E i \in LoginRuns : probe.runs[i].pc = "done" /\ probe.runs[i].why = "timeout"
     /\ \A i \in LoginRuns : probe.runs[i].result # "true")
        => probe.user # LoginUser


\* ------------------------------------------------------------------- C29
\* C29: after the provider mounts isLoading eventually becomes false on every
\* path of initAuth, even when an auth network call is never answered (timers
\* fire); once false it never becomes true again.
C29_LoadingEnds ==
    /\ <>(~probe.isLoading)
    /\ [][~probe.isLoading => ~probe'.isLoading]_vars


\* ------------------------------------ mosque fields beside issue saves
\* setReport({...report, mosques: {...report.mosques, [name]: value}})
MosqueChanged(rep) == [rep EXCEPT !.mosques.name = "edited"]

\* handleMosqueChange: a mosque field of the page is typed into
handleMosqueChange ==
    /\ PageShown
    /\ rendered.report.present
    /\ rendered.report.mosques.name # "edited"
    /\ state' = [state EXCEPT !.report = MosqueChanged(rendered.report)]
    /\ rendered' = [rendered EXCEPT !.report = MosqueChanged(rendered.report)]
    /\ event' = "mosque"
    /\ UNCHANGED <<uploads, procs, store, navigated, budget, probe>>

InitMosque ==
    /\ state \in {Loaded} \cup AddDialogs
    /\ rendered = state
    /\ uploads = <<>>
    /\ procs = <<LoadDone>>
    /\ store = InitialStore
    /\ navigated = FALSE
    /\ event = "other"
    /\ budget = [uploads |-> 0, edits |-> 0, flows |-> MosqueOps, faults |-> 0]
    /\ probe = NoProbe

NextMosque ==
    \/ Render
    \/ ReadReport
    \/ handleMosqueChange
    \/ openAddIssueDialog
    \/ openEditIssueDialog
    \/ CloseDialog
    \/ handleSaveIssue
    \/ CreateIssueSettles
    \/ UpdateIssueSettles
    \/ DeleteItemsSettles
    \/ DeletePhotosSettles
    \/ InsertItemsSettles
    \/ InsertPhotosSettles
    \/ SaveLoadSettles
    \/ handleDeleteIssue
    \/ DeleteIssueSettles
    \/ DeleteIssueLoadSettles

SpecMosque == InitMosque /\ [][NextMosque]_vars

\* ------------------------------------------------------------------- C30
\* a step of a save-issue or delete-issue flow
IssueFlowStep ==
    \E p \in DOMAIN procs :
        /\ procs[p].kind \in {"save", "deleteIssue"}
        /\ procs'[p] # procs[p]

\* C30: saving or deleting an issue leaves the mosque fields of the in-memory
\* report as they were: an edit made through handleMosqueChange and not yet
\* saved is still there after handleSaveIssue or handleDeleteIssue completed.
C30_MosqueEditsKept ==
    [][(IssueFlowStep /\ state.report.present /\ state'.report.present)
          => state'.report.mosques = state.report.mosques]_vars

====
